---- MODULE Spec2Model ----
(***************************************************************************)
(* whop-lead-engine: the Express auth server (signup / login over a        *)
(* Postgres users table, bcrypt, JWT) and the Next.js client that talks    *)
(* to it (apiRequest, the login / signup pages, the dashboard pages).      *)
(*                                                                         *)
(* JavaScript strings are sequences of character codes; a JSON field that  *)
(* may be absent is a record [def, s]: def is FALSE for undefined.         *)
(* An async handler is one action per stretch of code between two awaits.  *)
(* The database is reachable or not for the whole life of the process      *)
(* (dbUp); a query on a reachable database with the users table answers.   *)
(***************************************************************************)
EXTENDS Integers, Sequences, FiniteSets, Bags, TLC

\* ------------------------------------------------------------------ bounds
MaxInFlight == 2        \* requests the server handles at the same time
MaxSerial == 3          \* values the users.id SERIAL sequence hands out
NumSalts == 1           \* distinct salts bcrypt.genSalt can draw
NumAccounts == 1        \* accounts whose tokens the backend hands to the browser
MaxDiscovers == 1       \* discover requests in flight at the same time
MaxRounds == 1          \* discover requests one visit of the leads page makes
MaxToasts == 1          \* notifications the toaster keeps
MaxTime == 4            \* values of the event loop's time
MaxLate == 1            \* time a due timer may wait for the event loop
MaxCalls == 3           \* calls of a debounced function
MaxClock == 3           \* values of the server's Date.now()
MaxSegments == 3        \* segments of a pathname

\* --------------------------------------------------------------- constants
\* bcrypt keys the cipher with 18 words (72 bytes) read from the password
BcryptMaxBytes == 72

\* ------------------------------------------------------------ input values
Str(s) == [def |-> TRUE, s |-> s]
Undefined == [def |-> FALSE, s |-> <<>>]
\* JavaScript truthiness of a string-or-undefined: !v
Falsy(v) == ~v.def \/ v.s = <<>>

Repeat(c, n) == [i \in 1..n |-> c]

Email1 == <<1>>
Email2 == <<2>>
Emails == {Email1, Email2}
\* a short password, one of exactly the bcrypt key length, one a byte longer
PwShort == <<7, 7, 7, 7, 7, 7>>
PwLong == Repeat(8, BcryptMaxBytes)
PwLonger == PwLong \o <<9>>
Passwords == {PwShort, PwLong, PwLonger}
Name1 == <<5>>

\* request bodies: the well-formed ones, and the ones with one field undefined
\* or empty, or with no field at all
Body(email, password, name) ==
    [email |-> email, password |-> password, full_name |-> name]
FalsyInputs == {Undefined, Str(<<>>)}
SignupBodies ==
    {Body(Str(e), Str(PwLong), Str(Name1)) : e \in Emails}
    \cup {Body(f, Str(PwLong), Str(Name1)) : f \in FalsyInputs}
    \cup {Body(Str(Email1), f, Str(Name1)) : f \in FalsyInputs}
    \cup {Body(Str(Email1), Str(PwLong), f) : f \in FalsyInputs}
    \cup {Body(Undefined, Undefined, Undefined)}
LoginBodies ==
    {Body(Str(Email1), Str(p), Undefined) : p \in Passwords}
    \cup {Body(Str(Email2), Str(PwLong), Undefined)}
    \cup {Body(f, Str(PwLong), Undefined) : f \in FalsyInputs}
    \cup {Body(Str(Email1), f, Undefined) : f \in FalsyInputs}
    \cup {Body(Undefined, Undefined, Undefined)}

VARIABLES
    serverPc,    \* "initDatabase", "initialized", "listening"
    dbUp,        \* the database behind DATABASE_URL is reachable
    tableExists, \* CREATE TABLE IF NOT EXISTS users has run
    users,       \* rows of the users table
    serial,      \* last value handed out by the users.id SERIAL sequence
    reqs,        \* the requests being handled: a bag of request records
    created,     \* history: [id, email, password] of every signup answered 201
    \* the browser
    authToken,     \* localStorage 'auth_token': <<>> when absent, else <<t>>
    location,      \* path of the page that is mounted
    pendingNav,    \* navigation asked for and not yet done: <<>> or <<nav>>
    calls,         \* caller -> its apiRequest call (or NoCall)
    loginPage,     \* LoginPage state: isLoading, error
    signupPage,    \* SignupPage state: isLoading, error
    dashboardPage, \* DashboardPage state: loading, user, dashboardStats
    leadsPage,     \* LeadsPage state: initialLoading, leads, toasts
    demoTimer,     \* the 'Continue as Demo User' timeout is pending
    loggedOut,     \* history: "navbar" or "api" when a logout removed the token
                   \* and none was stored since, else "no"
    \* the leads page's discovery wizard
    wizard,        \* SimpleLeadDiscovery state
    modalOpen,     \* LeadsPage discoveryModalOpen
    discovers,     \* handleDiscoverLeads calls awaiting leadsAPI.discoverLeads
    deletes,       \* handleDeleteLead calls awaiting leadsAPI.deleteLead
    lastRound,     \* history: the latest successful discovery round; n counts
                   \* the rounds that have settled
    \* the home page
    home,          \* Home state: health, loading, error
    healthFetch,   \* Home.fetchHealth: "pending" while it awaits fetch, else "none"
    clock,         \* Date.now() of the server
    \* the leads page's search box and filter menus
    filters,       \* LeadsPage state: searchQuery, statusFilter, sourceFilter
    \* one function returned by debounce(func, wait)
    time,          \* the time of the event loop
    timeout,       \* the closure's 'timeout': 0 while undefined, else a timer id
    timers,        \* the timers setTimeout has scheduled and not yet run
    events,        \* history: the calls of the returned function and of func
    \* the dashboard's sidebar
    sidebar        \* Sidebar: pathname (what usePathname returns), isCollapsed

serverVars == <<serverPc, dbUp, tableExists, users, serial, reqs, created>>
debounceVars == <<time, timeout, timers, events>>
extraVars == <<filters, debounceVars, sidebar>>
otherVars == <<wizard, modalOpen, discovers, deletes, lastRound, home, healthFetch,
               clock, extraVars>>
clientVars == <<authToken, location, pendingNav, calls, loginPage, signupPage,
                dashboardPage, leadsPage, demoTimer, loggedOut, otherVars>>
vars == <<serverVars, clientVars>>
sessionVars == <<authToken, location, pendingNav, loginPage, signupPage,
                 dashboardPage, demoTimer, loggedOut>>
homeVars == <<home, healthFetch, clock>>

\* ------------------------------------------------------------------ bcrypt
\* the key bcrypt derives the hash from: the password and its terminating NUL,
\* read cyclically for 72 bytes
BcryptKey(p) ==
    LET k == p \o <<0>> IN [i \in 1..BcryptMaxBytes |-> k[((i - 1) % Len(k)) + 1]]
Salts == 1..NumSalts
\* bcrypt.hash(password, saltRounds) with the salt it drew
BcryptHash(p, salt) == [salt |-> salt, key |-> BcryptKey(p)]
\* mutant: compares the salt and not the key
BcryptCompareSaltOnly(p, h) == BcryptHash(p, h.salt).salt = h.salt
\* bcrypt.compare(password, hash): re-hash with the hash's salt and compare
BcryptCompare(p, h) == BcryptHash(p, h.salt) = h
NoHash == [salt |-> 0, key |-> <<>>]

\* --------------------------------------------------------------------- jwt
\* jwt.sign({ sub: user.id.toString() }, secret, { expiresIn: '24h' })
JwtSign(id) == [sub |-> ToString(id), expiresIn |-> "24h"]

\* ---------------------------------------------------------------- database
\* pool.query rejects when the database is unreachable or the table missing
QueryThrows == ~dbUp \/ ~tableExists
\* SELECT ... FROM users WHERE email = $1
SelectByEmail(email) == {u \in users : u.email = email}
\* the row INSERT INTO users (...) VALUES ($1, $2, $3, $4) creates
NewRow(id, email, hash, name) ==
    [id |-> id, email |-> email, password_hash |-> hash, full_name |-> name,
     role |-> "client", is_active |-> TRUE, is_verified |-> FALSE,
     stripe_onboarding_complete |-> FALSE]
\* email VARCHAR(255) UNIQUE
UniqueViolation(email) == \E u \in users : u.email = email
\* RETURNING id, email, full_name, role, ... (no password_hash)
Returning(row) == [f \in (DOMAIN row) \ {"password_hash"} |-> row[f]]
\* mutant: the row goes out as selected
WithoutPasswordWholeRow(row) == row
\* const { password_hash, ...userWithoutPassword } = user
WithoutPassword(row) == [f \in (DOMAIN row) \ {"password_hash"} |-> row[f]]

\* ---------------------------------------------------------------- requests
\* the request records in the bag
InFlight == BagToSet(reqs)
\* the bag with one copy of r replaced by r2
Replace(r, r2) == (reqs (-) SetToBag({r})) (+) SetToBag({r2})
ErrorBody(msg) == [error |-> msg]
SuccessBody(token, user) ==
    [access_token |-> token, token_type |-> "bearer", user |-> user]
Response(status, body) == [status |-> status, body |-> body]

NewReq(kind, email, password, name) ==
    [kind |-> kind, email |-> email, password |-> password, full_name |-> name,
     pc |-> "start", rows |-> {}, password_hash |-> NoHash,
     sent |-> <<>>, queries |-> 0, threw |-> FALSE,
     rowsAtArrival |-> {u \in users : email.def /\ u.email = email.s}]

\* res.status(s).json(b): the handler returns or ends right after it
Respond(r, status, body) ==
    [r EXCEPT !.pc = "done", !.sent = Append(@, Response(status, body))]
\* mutant: the catch block logs the error and sends nothing
CatchSilent(r) == [r EXCEPT !.pc = "done", !.threw = TRUE]
\* catch (error) { res.status(500).json({ error: 'Internal server error' }) }
Catch(r) ==
    [Respond(r, 500, ErrorBody("Internal server error")) EXCEPT !.threw = TRUE]

\* the server process right after its module has been evaluated
InitServer ==
    /\ serverPc = "initDatabase"
    /\ tableExists = FALSE
    /\ users = {}
    /\ serial = 0
    /\ reqs = EmptyBag
    /\ created = {}

\* ------------------------------------------------------------- JSON values
JUndefined == [t |-> "undefined"]
JNull == [t |-> "null"]
JStr(s) == [t |-> "str", v |-> s]
JNum(n) == [t |-> "num", v |-> n]
JArr(a) == [t |-> "arr", items |-> a]
JObj(fields) == [t |-> "obj", v |-> fields]
\* j.f for a j that is not null or undefined
Prop(j, f) == IF j.t = "obj" /\ f \in DOMAIN j.v THEN j.v[f] ELSE JUndefined
\* JavaScript truthiness
Truthy(j) ==
    CASE j.t \in {"undefined", "null", "NaN"} -> FALSE
      [] j.t = "str" -> j.v # ""
      [] j.t = "num" -> j.v # 0
      [] OTHER -> TRUE

\* ------------------------------------------------------------------- texts
\* a text is a sequence of symbols: " " is white space, any other symbol is a
\* run of non-blank characters
RECURSIVE TrimStart(_)
TrimStart(t) == IF t # <<>> /\ Head(t) = " " THEN TrimStart(Tail(t)) ELSE t
RECURSIVE TrimEnd(_)
TrimEnd(t) ==
    IF t # <<>> /\ t[Len(t)] = " " THEN TrimEnd(SubSeq(t, 1, Len(t) - 1)) ELSE t
\* String.prototype.trim
Trim(t) == TrimEnd(TrimStart(t))
\* Array.prototype.includes
Includes(list, x) == \E i \in 1..Len(list) : list[i] = x

\* the characters of the strings the leads carry
Characters(str) ==
    CASE str = "" -> <<>>
      [] str = "Bob" -> <<"B", "o", "b">>
      [] str = "bob" -> <<"b", "o", "b">>
      [] str = "ann" -> <<"a", "n", "n">>
      [] str = "ben" -> <<"b", "e", "n">>
      [] str = "cat" -> <<"c", "a", "t">>
      [] str = "dan" -> <<"d", "a", "n">>
      [] str = "eve" -> <<"e", "v", "e">>
      [] str = "fay" -> <<"f", "a", "y">>
      [] str = "Bo" -> <<"B", "o">>
      [] str = "bob@x.io" -> <<"b", "o", "b", "@", "x", ".", "i", "o">>
      [] str = "need SEO" -> <<"n", "e", "e", "d", " ", "S", "E", "O">>
      [] str = "ask Bob" -> <<"a", "s", "k", " ", "B", "o", "b">>
      [] str = "Unknown User" ->
            <<"U", "n", "k", "n", "o", "w", "n", " ", "U", "s", "e", "r">>
\* the lower-case form of the capital letters those strings and the search use
LowerCaseOf ==
    ("B" :> "b") @@ ("E" :> "e") @@ ("O" :> "o") @@ ("S" :> "s") @@ ("U" :> "u")
\* String.prototype.toLowerCase
ToLowerCase(t) ==
    [i \in 1..Len(t) |->
        IF t[i] \in DOMAIN LowerCaseOf THEN LowerCaseOf[t[i]] ELSE t[i]]
\* String.prototype.includes
StringIncludes(t, q) ==
    \E i \in 0..(Len(t) - Len(q)) : SubSeq(t, i + 1, i + Len(q)) = q

DigitValue ==
    [c \in {"0", "1", "2", "3", "4", "5", "6", "7", "8", "9"} |->
        CASE c = "0" -> 0 [] c = "1" -> 1 [] c = "2" -> 2 [] c = "3" -> 3
          [] c = "4" -> 4 [] c = "5" -> 5 [] c = "6" -> 6 [] c = "7" -> 7
          [] c = "8" -> 8 [] c = "9" -> 9]
\* the leading run of digits of a sequence of characters
RECURSIVE LeadingDigits(_)
LeadingDigits(cs) ==
    IF cs # <<>> /\ Head(cs) \in DOMAIN DigitValue
    THEN <<Head(cs)>> \o LeadingDigits(Tail(cs)) ELSE <<>>
RECURSIVE DigitsValue(_)
DigitsValue(ds) ==
    IF ds = <<>> THEN 0
    ELSE 10 * DigitsValue(SubSeq(ds, 1, Len(ds) - 1)) + DigitValue[ds[Len(ds)]]
NaN == [t |-> "NaN"]
\* parseInt(cs) for a sequence of characters: an optional sign, then digits up
\* to the first other character; NaN when there is no digit
ParseInt(cs) ==
    LET body == TrimStart(cs)
        signed == body # <<>> /\ Head(body) \in {"-", "+"}
        digits == LeadingDigits(IF signed THEN Tail(body) ELSE body)
    IN  IF digits = <<>> THEN NaN
        ELSE IF signed /\ Head(body) = "-" THEN JNum(0 - DigitsValue(digits))
        ELSE JNum(DigitsValue(digits))

\* ------------------------------------------------ what fetch() comes back with
\* fetch rejects: no connection, CORS, DNS
NetworkFailure == [kind |-> "failure"]
\* a response whose body is the JSON text of value
JsonResponse(status, value) ==
    [kind |-> "response", status |-> status, json |-> TRUE, value |-> value]
\* a response whose body is not JSON (an HTML error page, an empty body)
TextResponse(status) ==
    [kind |-> "response", status |-> status, json |-> FALSE, value |-> JUndefined]
\* response.ok
Ok(status) == status >= 200 /\ status <= 299

\* the token as it travels: header.payload.signature
JwtEncode(token) == "jwt-" \o token.sub
\* the success body of the auth routes, as JSON on the wire
WireSuccess(id) ==
    LET b == SuccessBody(JwtSign(id), [id |-> id]) IN
    JObj([access_token |-> JStr(JwtEncode(b.access_token)),
          token_type |-> JStr(b.token_type),
          user |-> JObj([id |-> JNum(b.user.id)])])
\* the {error} body of the auth routes, as JSON on the wire
WireError(msg) == JObj([error |-> JStr(ErrorBody(msg).error)])
\* the responses of POST /api/auth/login and of the signup route
AuthOutcomes ==
    {JsonResponse(s, WireSuccess(id)) : s \in {200, 201}, id \in 1..NumAccounts}
    \cup {JsonResponse(400, WireError("Email and password are required")),
          JsonResponse(401, WireError("Invalid credentials")),
          JsonResponse(409, WireError("Email already registered")),
          JsonResponse(500, WireError("Internal server error")),
          TextResponse(502), NetworkFailure}
\* GET /api/analytics/dashboard: the stats, bare or wrapped in {data}
BackendStats == JObj([leadsGenerated |-> JObj([total |-> JNum(5)])])
StatsOutcomes ==
    {JsonResponse(200, BackendStats),
     JsonResponse(200, JObj([data |-> BackendStats, message |-> JStr("ok")])),
     JsonResponse(200, JNull),
     JsonResponse(401, WireError("Not authenticated")),
     TextResponse(502), NetworkFailure}
\* a lead as GET /api/leads sends it
\* email and username are optional: <<>> when absent, else <<string>>
ListedLead(id, name, email, username, source, status, content, intentScore) ==
    [id |-> id, name |-> name, email |-> email, username |-> username,
     source |-> source, content |-> content, intentScore |-> intentScore,
     qualityGrade |-> "C", status |-> status, interests |-> <<>>,
     painPoints |-> <<>>]
FetchedLead(id) ==
    ListedLead(id, "bob", <<>>, <<>>, "twitter", "contacted", "", 40)
\* GET /api/leads
LeadsOutcomes ==
    {JsonResponse(200, JObj([leads |-> JArr(<<FetchedLead("1"), FetchedLead("7")>>),
                             total |-> JNum(2)])),
     JsonResponse(200, JObj([total |-> JNum(0)])),
     JsonResponse(401, WireError("Not authenticated")),
     JsonResponse(500, JNull),
     TextResponse(502), NetworkFailure}
\* any route, as a caller of apiRequest may meet it
AnyOutcomes ==
    {JsonResponse(200, BackendStats),
     JsonResponse(200, JObj([data |-> BackendStats, message |-> JStr("ok")])),
     JsonResponse(200, JNull),
     JsonResponse(404, JObj(<<>>)),
     JsonResponse(401, WireError("Not authenticated")),
     JsonResponse(500, JNull),
     TextResponse(204), TextResponse(502), NetworkFailure}

\* -------------------------------------------------------------- apiRequest
Resolved(v) == [state |-> "resolved", value |-> v]
Rejected(e) == [state |-> "rejected", error |-> e]
\* return { success: false, error: error.message }
Failure(msg) == Resolved([success |-> FALSE, error |-> msg])
\* new APIError(data.error || 'API request failed', response.status)
APIError(data, status) ==
    [name |-> "APIError", status |-> status,
     message |-> IF Truthy(Prop(data, "error")) THEN Prop(data, "error")
                 ELSE JStr("API request failed")]

\* mutant: the catch block turns an APIError into { success: false } as well
ApiSettleNoRethrow(o) ==
    IF o.kind = "failure" THEN Failure("Failed to fetch")
    ELSE IF ~o.json THEN Failure("Unexpected token in JSON")
    ELSE IF o.value.t = "null" THEN Failure("Cannot read properties of null")
    ELSE IF ~Ok(o.status) THEN Failure("API request failed")
    ELSE Resolved([success |-> TRUE,
                   data |-> IF Truthy(Prop(o.value, "data"))
                            THEN Prop(o.value, "data") ELSE o.value,
                   message |-> Prop(o.value, "message")])
\* apiRequest from 'await fetch' on: what the returned promise settles to
ApiSettle(o) ==
    IF o.kind = "failure" THEN Failure("Failed to fetch")
    ELSE IF ~o.json THEN Failure("Unexpected token in JSON")
    ELSE IF o.value.t = "null" THEN Failure("Cannot read properties of null")
    ELSE IF ~Ok(o.status) THEN Rejected(APIError(o.value, o.status))
    ELSE Resolved([success |-> TRUE,
                   data |-> IF Truthy(Prop(o.value, "data"))
                            THEN Prop(o.value, "data") ELSE o.value,
                   message |-> Prop(o.value, "message")])

\* localStorage.getItem('auth_token'): null when absent
Stored(storage) == IF storage = <<>> THEN JNull ELSE JStr(storage[1])
NoHeaders == [h \in {} |-> ""]
\* mutant: the defaults are spread after the caller's headers
ApiHeadersDefaultsWin(inBrowser, storage, callerHeaders) ==
    LET contentType == "Content-Type" :> "application/json"
        token == Stored(storage)
        defaultHeaders ==
            IF inBrowser /\ Truthy(token)
            THEN contentType @@ ("Authorization" :> ("Bearer " \o token.v))
            ELSE contentType
    IN  defaultHeaders @@ callerHeaders
\* apiRequest up to fetch: { ...defaultHeaders, ...options.headers }
ApiHeaders(inBrowser, storage, callerHeaders) ==
    LET contentType == "Content-Type" :> "application/json"
        token == Stored(storage)
        defaultHeaders ==
            IF inBrowser /\ Truthy(token)
            THEN contentType @@ ("Authorization" :> ("Bearer " \o token.v))
            ELSE contentType
    IN  callerHeaders @@ defaultHeaders

Callers == {"login", "signup", "stats", "leads", "api"}
NoCall == [state |-> "none"]
\* a call of apiRequest(endpoint, { method, headers }) that awaits fetch
NewCall(endpoint, method, inBrowser, callerHeaders) ==
    [state |-> "pending", endpoint |-> endpoint, method |-> method,
     headers |-> ApiHeaders(inBrowser, authToken, callerHeaders),
     inBrowser |-> inBrowser, callerHeaders |-> callerHeaders,
     storedAtCall |-> authToken, orphan |-> FALSE,
     outcome |-> NoCall, result |-> NoCall]

\* ------------------------------------------------------------------- pages
DashboardPages ==
    {"/dashboard", "/dashboard/leads", "/dashboard/retention",
     "/dashboard/payments", "/dashboard/analytics", "/dashboard/settings"}
Pages == {"/", "/login", "/signup"} \cup DashboardPages
\* window.location.href = path: a full page load
Href(path) == [path |-> path, load |-> TRUE]
\* router.push(path), <Link href>: the document and its pending work stay
Push(path) == [path |-> path, load |-> FALSE]

FormInit == [isLoading |-> FALSE, error |-> ""]
\* DashboardPage: the stats of the useState initial value and of the catch
ZeroEntry(amount) ==
    JObj((amount :> JNum(0)) @@ ("change" :> JNum(0)) @@ ("trend" :> JStr("neutral")))
ZeroStats ==
    JObj([leadsGenerated |-> ZeroEntry("total"), conversions |-> ZeroEntry("total"),
          revenue |-> ZeroEntry("total"), retention |-> ZeroEntry("rate")])
DashboardInit == [loading |-> TRUE, user |-> "null", dashboardStats |-> ZeroStats]
LeadsInit == [initialLoading |-> TRUE, leads |-> <<>>, toasts |-> <<>>]
\* LeadsPage: the useState initial values of the search box and the filters
FiltersInit == [searchQuery |-> <<>>, statusFilter |-> "all", sourceFilter |-> "all"]
\* Sidebar: the dashboard's pathname and the useState initial value of
\* isCollapsed. A pathname is the sequence of its "/" and its segments.
SidebarInit == [pathname |-> <<"/", "dashboard">>, isCollapsed |-> FALSE]
\* tokens 'Continue as Demo User' may generate: demo-<Date.now()>-<random>
DemoTokens == {"demo-1700000000000-k3j9x2a1b"}
\* what localStorage may hold when the tab is opened
StoredAtStart == {<<>>, <<"">>, <<"jwt-1">>, <<"demo-token">>}

\* SimpleLeadDiscovery: the useState initial values, also what resetForm sets
WizardInit ==
    [step |-> 1, loading |-> FALSE, selectedNiche |-> "", keywords |-> <<>>,
     keywordInput |-> <<>>, subreddits |-> <<>>, subredditInput |-> <<>>,
     maxLeads |-> 10, discoveredLeads |-> <<>>]
\* Home: the useState initial values
HomeInit == [health |-> JNull, loading |-> TRUE, error |-> JNull]

InitBrowser ==
    /\ location = "/"
    /\ pendingNav = <<>>
    /\ calls = [c \in Callers |-> NoCall]
    /\ loginPage = FormInit
    /\ signupPage = FormInit
    /\ dashboardPage = DashboardInit
    /\ leadsPage = LeadsInit
    /\ demoTimer = FALSE
    /\ loggedOut = "no"
    /\ wizard = WizardInit
    /\ modalOpen = FALSE
    /\ discovers = <<>>
    /\ deletes = {}
    /\ lastRound = [n |-> 0, api |-> <<>>, leads |-> <<>>]
    /\ home = HomeInit
    /\ healthFetch = "pending"
    /\ clock = 0
    /\ filters = FiltersInit
    /\ sidebar = SidebarInit
    /\ time = 0
    /\ timeout = 0
    /\ timers = {}
    /\ events = <<>>

Init ==
    /\ InitServer
    /\ dbUp \in BOOLEAN
    /\ InitBrowser
    /\ authToken = <<>>

\* initDatabase(): CREATE TABLE IF NOT EXISTS users; a failure is only logged
InitDatabase ==
    /\ serverPc = "initDatabase"
    /\ serverPc' = "initialized"
    /\ tableExists' = dbUp
    /\ UNCHANGED <<dbUp, users, serial, reqs, created, clientVars>>

\* mutant: app.listen(port) is called without waiting for initDatabase()
ListenAtOnce ==
    /\ serverPc \in {"initDatabase", "initialized"}
    /\ serverPc' = "listening"
    /\ UNCHANGED <<dbUp, tableExists, users, serial, reqs, created, clientVars>>
\* initDatabase().then(() => app.listen(port))
Listen ==
    /\ serverPc = "initialized"
    /\ serverPc' = "listening"
    /\ UNCHANGED <<dbUp, tableExists, users, serial, reqs, created, clientVars>>

\* signups that may still draw a value from the SERIAL sequence
PendingInserts ==
    BagCardinality([r \in {x \in InFlight : x.kind = "signup" /\ x.pc # "done"}
                       |-> reqs[r]])

\* mutant: full_name is not validated
SignupStartNoNameCheck(body) ==
    /\ serverPc = "listening"
    /\ BagCardinality(reqs) < MaxInFlight
    /\ serial + PendingInserts < MaxSerial
    /\ LET email == body.email
           password == body.password
           full_name == body.full_name
           r == NewReq("signup", email, password, full_name) IN
       reqs' = reqs (+) SetToBag({
          IF Falsy(email) \/ Falsy(password)
          THEN Respond(r, 400, ErrorBody("Email, password, and full name are required"))
          ELSE [r EXCEPT !.pc = "select", !.queries = @ + 1]})
    /\ UNCHANGED <<serverPc, dbUp, tableExists, users, serial, created, clientVars>>

\* POST /api/auth/signup, up to the first await: validate, issue the SELECT
SignupStart(body) ==
    /\ serverPc = "listening"
    /\ BagCardinality(reqs) < MaxInFlight
    /\ serial + PendingInserts < MaxSerial
    /\ LET email == body.email
           password == body.password
           full_name == body.full_name
           r == NewReq("signup", email, password, full_name) IN
       reqs' = reqs (+) SetToBag({
          IF Falsy(email) \/ Falsy(password) \/ Falsy(full_name)
          THEN Respond(r, 400, ErrorBody("Email, password, and full name are required"))
          ELSE [r EXCEPT !.pc = "select", !.queries = @ + 1]})
    /\ UNCHANGED <<serverPc, dbUp, tableExists, users, serial, created, clientVars>>

\* mutant: the handler does not look at the rows the SELECT returned
SignupSelectNoCheck(r) ==
    /\ r \in InFlight /\ r.kind = "signup" /\ r.pc = "select"
    /\ LET rows == SelectByEmail(r.email.s) IN
       reqs' = Replace(r,
          IF QueryThrows THEN Catch(r)
          ELSE [r EXCEPT !.rows = rows, !.pc = "hash"])
    /\ UNCHANGED <<serverPc, dbUp, tableExists, users, serial, created, clientVars>>

\* the SELECT id FROM users WHERE email = $1 settles; 409 or go on to bcrypt.hash
SignupSelect(r) ==
    /\ r \in InFlight /\ r.kind = "signup" /\ r.pc = "select"
    /\ LET rows == SelectByEmail(r.email.s) IN
       reqs' = Replace(r,
          IF QueryThrows THEN Catch(r)
          ELSE IF Cardinality(rows) > 0
          THEN Respond([r EXCEPT !.rows = rows], 409, ErrorBody("Email already registered"))
          ELSE [r EXCEPT !.rows = rows, !.pc = "hash"])
    /\ UNCHANGED <<serverPc, dbUp, tableExists, users, serial, created, clientVars>>

\* bcrypt.hash(password, 10) settles; issue the INSERT
SignupHash(r) ==
    /\ r \in InFlight /\ r.kind = "signup" /\ r.pc = "hash"
    /\ \E salt \in Salts :
          reqs' = Replace(r,
             [r EXCEPT !.password_hash = BcryptHash(r.password.s, salt),
                       !.pc = "insert", !.queries = @ + 1])
    /\ UNCHANGED <<serverPc, dbUp, tableExists, users, serial, created, clientVars>>

\* the INSERT ... RETURNING settles: unique violation throws, else sign and 201
SignupInsert(r) ==
    /\ r \in InFlight /\ r.kind = "signup" /\ r.pc = "insert"
    /\ LET id == serial + 1
           row == NewRow(id, r.email.s, r.password_hash, r.full_name.s) IN
       IF QueryThrows
       THEN /\ reqs' = Replace(r, Catch(r))
            /\ UNCHANGED <<users, serial, created>>
       ELSE IF UniqueViolation(r.email.s)
       THEN \* nextval('users_id_seq') is consumed before the constraint fails
            /\ reqs' = Replace(r, Catch(r))
            /\ serial' = id
            /\ UNCHANGED <<users, created>>
       ELSE /\ users' = users \cup {row}
            /\ serial' = id
            /\ created' = created \cup
                  {[id |-> id, email |-> r.email.s, password |-> r.password.s]}
            /\ reqs' = Replace(r,
                  Respond(r, 201, SuccessBody(JwtSign(id), Returning(row))))
    /\ UNCHANGED <<serverPc, dbUp, tableExists, clientVars>>

\* POST /api/auth/login, up to the first await: validate, issue the SELECT
LoginStart(body) ==
    /\ serverPc = "listening"
    /\ BagCardinality(reqs) < MaxInFlight
    /\ LET email == body.email
           password == body.password
           r == NewReq("login", email, password, Undefined) IN
       reqs' = reqs (+) SetToBag({
          IF Falsy(email) \/ Falsy(password)
          THEN Respond(r, 400, ErrorBody("Email and password are required"))
          ELSE [r EXCEPT !.pc = "select", !.queries = @ + 1]})
    /\ UNCHANGED <<serverPc, dbUp, tableExists, users, serial, created, clientVars>>

\* mutant: an email without a row is answered 404
LoginSelectNotFound(r) ==
    /\ r \in InFlight /\ r.kind = "login" /\ r.pc = "select"
    /\ LET rows == SelectByEmail(r.email.s) IN
       reqs' = Replace(r,
          IF QueryThrows THEN Catch(r)
          ELSE IF Cardinality(rows) = 0
          THEN Respond([r EXCEPT !.rows = rows], 404, ErrorBody("User not found"))
          ELSE [r EXCEPT !.rows = rows, !.pc = "compare"])
    /\ UNCHANGED <<serverPc, dbUp, tableExists, users, serial, created, clientVars>>
\* the SELECT * FROM users WHERE email = $1 settles; 401 or go on to compare
LoginSelect(r) ==
    /\ r \in InFlight /\ r.kind = "login" /\ r.pc = "select"
    /\ LET rows == SelectByEmail(r.email.s) IN
       reqs' = Replace(r,
          IF QueryThrows THEN Catch(r)
          ELSE IF Cardinality(rows) = 0
          THEN Respond([r EXCEPT !.rows = rows], 401, ErrorBody("Invalid credentials"))
          ELSE [r EXCEPT !.rows = rows, !.pc = "compare"])
    /\ UNCHANGED <<serverPc, dbUp, tableExists, users, serial, created, clientVars>>

\* mutant: the result of bcrypt.compare is not tested
LoginCompareAccept(r) ==
    /\ r \in InFlight /\ r.kind = "login" /\ r.pc = "compare"
    /\ LET user == CHOOSE u \in r.rows : TRUE IN
       reqs' = Replace(r,
          Respond(r, 200, SuccessBody(JwtSign(user.id), WithoutPassword(user))))
    /\ UNCHANGED <<serverPc, dbUp, tableExists, users, serial, created, clientVars>>

\* bcrypt.compare(password, user.password_hash) settles; 401 or sign and 200
LoginCompare(r) ==
    /\ r \in InFlight /\ r.kind = "login" /\ r.pc = "compare"
    /\ LET user == CHOOSE u \in r.rows : TRUE IN
       reqs' = Replace(r,
          IF ~BcryptCompare(r.password.s, user.password_hash)
          THEN Respond(r, 401, ErrorBody("Invalid credentials"))
          ELSE Respond(r, 200, SuccessBody(JwtSign(user.id), WithoutPassword(user))))
    /\ UNCHANGED <<serverPc, dbUp, tableExists, users, serial, created, clientVars>>

\* the response has gone out on the wire; express drops the request
Finish(r) ==
    /\ r \in InFlight /\ r.pc = "done"
    /\ reqs' = reqs (-) SetToBag({r})
    /\ UNCHANGED <<serverPc, dbUp, tableExists, users, serial, created, clientVars>>

Next ==
    \/ InitDatabase
    \/ Listen
    \/ \E b \in SignupBodies : SignupStart(b)
    \/ \E r \in InFlight : SignupSelect(r)
    \/ \E r \in InFlight : SignupHash(r)
    \/ \E r \in InFlight : SignupInsert(r)
    \/ \E b \in LoginBodies : LoginStart(b)
    \/ \E r \in InFlight : LoginSelect(r)
    \/ \E r \in InFlight : LoginCompare(r)
    \/ \E r \in InFlight : Finish(r)

Spec == Init /\ [][Next]_vars

\* ---------------------------------------------------------- browser actions
\* the calls that survive a navigation: none after a full page load; after a
\* client-side one a pending onSubmit goes on with its component unmounted
\* (it still writes localStorage and calls router.push), while a pending
\* fetchDashboardData or fetchLeads only sets state of a component that is
\* gone and is no longer followed
CallsAfter(nav) ==
    [c \in Callers |->
        IF nav.load \/ c \in {"stats", "leads"} THEN NoCall
        ELSE IF calls[c].state = "pending" THEN [calls[c] EXCEPT !.orphan = TRUE]
        ELSE calls[c]]

\* the page at nav.path mounts and its effects run up to their first await
Mount(nav) ==
    LET token == Stored(authToken)
        kept == CallsAfter(nav)
    IN
    /\ location' = nav.path
    /\ loginPage' = FormInit
    /\ signupPage' = FormInit
    /\ demoTimer' = (demoTimer /\ ~nav.load)
    /\ IF nav.path = "/dashboard"
       THEN \* DashboardPage: fetchDashboardData
            /\ leadsPage' = LeadsInit
            /\ IF ~Truthy(token)
               THEN /\ pendingNav' = <<Href("/login")>>
                    /\ dashboardPage' = [DashboardInit EXCEPT !.loading = FALSE]
                    /\ calls' = kept
                    /\ UNCHANGED authToken
               ELSE IF token.v = "demo-token"
               THEN /\ authToken' = <<>>
                    /\ pendingNav' = <<Href("/signup")>>
                    /\ dashboardPage' = [DashboardInit EXCEPT !.loading = FALSE]
                    /\ calls' = kept
               ELSE /\ calls' = [kept EXCEPT !["stats"] =
                          NewCall("/api/analytics/dashboard", "GET", TRUE, NoHeaders)]
                    /\ dashboardPage' = DashboardInit
                    /\ pendingNav' = <<>>
                    /\ UNCHANGED authToken
       ELSE IF nav.path = "/dashboard/leads"
       THEN \* LeadsPage: fetchLeads
            /\ calls' = [kept EXCEPT !["leads"] =
                  NewCall("/api/leads", "GET", TRUE, NoHeaders)]
            /\ leadsPage' = LeadsInit
            /\ dashboardPage' = DashboardInit
            /\ pendingNav' = <<>>
            /\ UNCHANGED authToken
       ELSE /\ calls' = kept
            /\ leadsPage' = LeadsInit
            /\ dashboardPage' = DashboardInit
            /\ pendingNav' = <<>>
            /\ UNCHANGED authToken
    \* the components of the page that is left unmount and lose their state;
    \* Home starts fetchHealth when it mounts
    /\ wizard' = WizardInit
    /\ modalOpen' = FALSE
    /\ discovers' = <<>>
    /\ deletes' = {}
    /\ home' = HomeInit
    /\ healthFetch' = IF nav.path = "/" THEN "pending" ELSE "none"
    /\ filters' = FiltersInit
    /\ UNCHANGED <<serverVars, loggedOut, lastRound, clock, debounceVars, sidebar>>

\* the links the pages offer: login <-> signup, the sidebar on the dashboard
Linked(from, to) ==
    \/ from = "/login" /\ to = "/signup"
    \/ from = "/signup" /\ to = "/login"
    \/ from \in DashboardPages /\ to \in DashboardPages

\* the visitor enters a URL (a full load) or follows a link
OpenPage(path, load) ==
    /\ pendingNav = <<>>
    /\ load \/ Linked(location, path)
    /\ Mount([path |-> path, load |-> load])

\* a navigation asked for by window.location.href or router.push happens
Navigate ==
    /\ pendingNav # <<>>
    /\ Mount(pendingNav[1])

\* LoginPage.onSubmit up to 'await authAPI.login'
LoginSubmit ==
    /\ location = "/login" /\ ~loginPage.isLoading
    /\ calls["login"].state # "pending"
    /\ loginPage' = [isLoading |-> TRUE, error |-> ""]
    /\ calls' = [calls EXCEPT !["login"] =
          NewCall("/api/auth/login", "POST", TRUE, NoHeaders)]
    /\ UNCHANGED <<authToken, location, pendingNav, signupPage, dashboardPage,
                   leadsPage, demoTimer, serverVars, loggedOut, otherVars>>

\* response.error || fallback
ErrorOr(res, fallback) ==
    IF "error" \in DOMAIN res.value /\ res.value.error # ""
    THEN res.value.error ELSE fallback

\* the rest of a form's onSubmit once its apiRequest has settled to res:
\* tokenField is the property of response.data the page reads the token from
SubmitDone(caller, page, res, tokenField, fallback) ==
    LET ok == /\ res.state = "resolved" /\ res.value.success
              /\ Truthy(Prop(res.value.data, tokenField))
        message == IF res.state = "rejected"
                   THEN "An error occurred. Please try again."
                   ELSE ErrorOr(res, fallback)
    IN
    [authToken |-> IF ok THEN <<Prop(res.value.data, tokenField).v>> ELSE authToken,
     pendingNav |-> IF ok THEN <<Push("/dashboard")>> ELSE pendingNav,
     page |-> IF calls[caller].orphan THEN page
              ELSE [isLoading |-> FALSE,
                    error |-> IF ok THEN page.error ELSE message]]

\* the login request settles and LoginPage.onSubmit runs to its end
LoginSettle(o) ==
    /\ calls["login"].state = "pending"
    /\ LET res == ApiSettle(o)
           done == SubmitDone("login", loginPage, res, "token", "Login failed")
       IN
       /\ calls' = [calls EXCEPT !["login"] = NoCall]
       /\ authToken' = done.authToken
       /\ pendingNav' = done.pendingNav
       /\ loginPage' = done.page
    /\ loggedOut' = IF authToken' = authToken THEN loggedOut ELSE "no"
    /\ UNCHANGED <<location, signupPage, dashboardPage, leadsPage, demoTimer,
                   serverVars, otherVars>>

\* SignupPage.onSubmit up to 'await authAPI.signup'
SignupSubmit ==
    /\ location = "/signup" /\ ~signupPage.isLoading
    /\ calls["signup"].state # "pending"
    /\ signupPage' = [isLoading |-> TRUE, error |-> ""]
    /\ calls' = [calls EXCEPT !["signup"] =
          NewCall("/simple-signup", "POST", TRUE,
                  "Content-Type" :> "application/x-www-form-urlencoded")]
    /\ UNCHANGED <<authToken, location, pendingNav, loginPage, dashboardPage,
                   leadsPage, demoTimer, serverVars, loggedOut, otherVars>>

\* the signup request settles and SignupPage.onSubmit runs to its end
SignupSettle(o) ==
    /\ calls["signup"].state = "pending"
    /\ LET res == ApiSettle(o)
           done == SubmitDone("signup", signupPage, res, "access_token", "Signup failed")
       IN
       /\ calls' = [calls EXCEPT !["signup"] = NoCall]
       /\ authToken' = done.authToken
       /\ pendingNav' = done.pendingNav
       /\ signupPage' = done.page
    /\ loggedOut' = IF authToken' = authToken THEN loggedOut ELSE "no"
    /\ UNCHANGED <<location, loginPage, dashboardPage, leadsPage, demoTimer,
                   serverVars, otherVars>>

\* 'Continue as Demo User': setIsLoading(true); setTimeout(..., 1000)
DemoClick ==
    /\ location = "/login" /\ ~demoTimer
    /\ loginPage' = [loginPage EXCEPT !.isLoading = TRUE]
    /\ demoTimer' = TRUE
    /\ UNCHANGED <<authToken, location, pendingNav, calls, signupPage,
                   dashboardPage, leadsPage, serverVars, loggedOut, otherVars>>

\* the demo timeout fires: store the demo token, router.push('/dashboard')
DemoTimeout(token) ==
    /\ demoTimer
    /\ demoTimer' = FALSE
    /\ authToken' = <<token>>
    /\ pendingNav' = <<Push("/dashboard")>>
    /\ loggedOut' = "no"
    /\ UNCHANGED <<location, calls, loginPage, signupPage, dashboardPage,
                   leadsPage, serverVars, otherVars>>

\* authAPI.logout(): removes the token, no navigation
AuthLogout ==
    /\ authToken' = <<>>
    /\ loggedOut' = IF loggedOut = "navbar" THEN "navbar" ELSE "api"
    /\ UNCHANGED <<location, pendingNav, calls, loginPage, signupPage,
                   dashboardPage, leadsPage, demoTimer, serverVars, otherVars>>

\* mutant: the navbar only navigates, the token stays in localStorage
LogoutKeepsToken ==
    /\ location \in DashboardPages
    /\ loggedOut' = "navbar"
    /\ pendingNav' = <<Href("/login")>>
    /\ UNCHANGED <<authToken, location, calls, loginPage, signupPage,
                   dashboardPage, leadsPage, demoTimer, serverVars, otherVars>>
\* Navbar.handleLogout
Logout ==
    /\ location \in DashboardPages
    /\ authToken' = <<>>
    /\ pendingNav' = <<Href("/login")>>
    /\ loggedOut' = "navbar"
    /\ UNCHANGED <<location, calls, loginPage, signupPage, dashboardPage,
                   leadsPage, demoTimer, serverVars, otherVars>>

\* mutant: setLoading(false) is not in a finally block
StatsSettleNoFinally(o) ==
    /\ calls["stats"].state = "pending"
    /\ LET res == ApiSettle(o) IN
       /\ calls' = [calls EXCEPT !["stats"] = NoCall]
       /\ dashboardPage' =
             IF calls["stats"].orphan THEN dashboardPage
             ELSE IF res.state = "rejected"
             THEN [loading |-> TRUE, user |-> dashboardPage.user,
                   dashboardStats |-> ZeroStats]
             ELSE [loading |-> FALSE, user |-> "authenticated",
                   dashboardStats |->
                      IF res.value.success /\ Truthy(res.value.data)
                      THEN res.value.data ELSE dashboardPage.dashboardStats]
    /\ UNCHANGED <<authToken, location, pendingNav, loginPage, signupPage,
                   leadsPage, demoTimer, serverVars, loggedOut, otherVars>>
\* the stats request settles and fetchDashboardData runs to its end
StatsSettle(o) ==
    /\ calls["stats"].state = "pending"
    /\ LET res == ApiSettle(o) IN
       /\ calls' = [calls EXCEPT !["stats"] = NoCall]
       /\ dashboardPage' =
             IF calls["stats"].orphan THEN dashboardPage
             ELSE IF res.state = "rejected"
             THEN [loading |-> FALSE, user |-> dashboardPage.user,
                   dashboardStats |-> ZeroStats]
             ELSE [loading |-> FALSE, user |-> "authenticated",
                   dashboardStats |->
                      IF res.value.success /\ Truthy(res.value.data)
                      THEN res.value.data ELSE dashboardPage.dashboardStats]
    /\ UNCHANGED <<authToken, location, pendingNav, loginPage, signupPage,
                   leadsPage, demoTimer, serverVars, loggedOut, otherVars>>

\* the leads request settles and fetchLeads runs to its end
LeadsSettle(o) ==
    /\ calls["leads"].state = "pending"
    /\ LET res == ApiSettle(o)
           hasData == res.state = "resolved" /\ res.value.success
                      /\ Truthy(res.value.data)
       IN
       /\ calls' = [calls EXCEPT !["leads"] = NoCall]
       /\ leadsPage' =
             IF calls["leads"].orphan THEN leadsPage
             ELSE [initialLoading |-> FALSE,
                   leads |-> IF hasData
                             THEN (IF Truthy(Prop(res.value.data, "leads"))
                                   THEN Prop(res.value.data, "leads").items ELSE <<>>)
                             ELSE leadsPage.leads,
                   toasts |-> IF hasData THEN leadsPage.toasts
                              ELSE IF res.state = "rejected"
                              THEN Append(leadsPage.toasts, "Error loading leads")
                              ELSE Append(leadsPage.toasts, "Failed to load leads")]
    /\ UNCHANGED <<authToken, location, pendingNav, loginPage, signupPage,
                   dashboardPage, demoTimer, serverVars, loggedOut, otherVars>>

\* headers a caller of apiRequest passes in options.headers
CallerHeaderChoices ==
    {NoHeaders, "Authorization" :> "Basic abc", "X-Trace" :> "1"}

\* some code calls apiRequest(endpoint, options): up to 'await fetch'
ApiCall(inBrowser, callerHeaders) ==
    /\ calls["api"].state # "pending"
    /\ calls' = [calls EXCEPT !["api"] =
          NewCall("/api/any", "GET", inBrowser, callerHeaders)]
    /\ UNCHANGED <<authToken, location, pendingNav, loginPage, signupPage,
                   dashboardPage, leadsPage, demoTimer, serverVars, loggedOut, otherVars>>

\* that call's fetch comes back and the promise settles
ApiCallSettle(o) ==
    /\ calls["api"].state = "pending"
    /\ calls' = [calls EXCEPT !["api"].state = "settled",
                              !["api"].outcome = o,
                              !["api"].result = ApiSettle(o)]
    /\ UNCHANGED <<authToken, location, pendingNav, loginPage, signupPage,
                   dashboardPage, leadsPage, demoTimer, serverVars, loggedOut, otherVars>>

InitClient ==
    /\ InitServer
    /\ dbUp = TRUE
    /\ InitBrowser
    /\ authToken \in StoredAtStart

\* the pages of the app in one browser tab
NextClient ==
    \/ \E path \in Pages, load \in BOOLEAN : OpenPage(path, load)
    \/ Navigate
    \/ LoginSubmit
    \/ \E o \in AuthOutcomes : LoginSettle(o)
    \/ SignupSubmit
    \/ \E o \in AuthOutcomes : SignupSettle(o)
    \/ DemoClick
    \/ \E token \in DemoTokens : DemoTimeout(token)
    \/ Logout
    \/ AuthLogout
    \/ \E o \in StatsOutcomes : StatsSettle(o)
    \/ \E o \in LeadsOutcomes : LeadsSettle(o)

SpecClient == InitClient /\ [][NextClient]_vars

\* apiRequest called with any options while the stored token comes and goes
NextApi ==
    \/ \E path \in Pages, load \in BOOLEAN : OpenPage(path, load)
    \/ Navigate
    \/ DemoClick
    \/ \E token \in DemoTokens : DemoTimeout(token)
    \/ Logout
    \/ \E b \in BOOLEAN, h \in CallerHeaderChoices : ApiCall(b, h)
    \/ \E o \in AnyOutcomes : ApiCallSettle(o)

SpecApi == InitClient /\ [][NextApi]_vars

\* ------------------------------------------- leads page and discovery wizard
\* the niches offered at step 1, as in the source
NICHE_OPTIONS ==
    <<[value |-> "trading",
       keywords |-> <<<<"trading">>, <<"stocks">>, <<"investment">>>>,
       subreddits |-> <<<<"investing">>, <<"trading">>, <<"stocks">>>>],
      [value |-> "saas",
       keywords |-> <<<<"SaaS">>, <<"software">>, <<"startup">>>>,
       subreddits |-> <<<<"entrepreneur">>, <<"startups">>, <<"SaaS">>>>],
      [value |-> "fitness",
       keywords |-> <<<<"fitness">>, <<"gym">>, <<"workout">>>>,
       subreddits |-> <<<<"fitness">>, <<"bodybuilding">>, <<"loseit">>>>],
      [value |-> "marketing",
       keywords |-> <<<<"marketing">>, <<"advertising">>, <<"SEO">>>>,
       subreddits |-> <<<<"marketing">>, <<"entrepreneur">>, <<"digital_marketing">>>>],
      [value |-> "ecommerce",
       keywords |-> <<<<"ecommerce">>, <<"shopify">>, <<"amazon">>>>,
       subreddits |-> <<<<"ecommerce">>, <<"entrepreneur">>, <<"shopify">>>>],
      [value |-> "coaching",
       keywords |-> <<<<"coaching">>, <<"consulting">>, <<"mentor">>>>,
       subreddits |-> <<<<"entrepreneur">>, <<"coaching">>, <<"consulting">>>>],
      [value |-> "crypto",
       keywords |-> <<<<"crypto">>, <<"bitcoin">>, <<"ethereum">>>>,
       subreddits |-> <<<<"cryptocurrency">>, <<"bitcoin">>, <<"ethereum">>>>],
      [value |-> "gaming",
       keywords |-> <<<<"gaming">>, <<"game", " ", "development">>, <<"streaming">>>>,
       subreddits |-> <<<<"gaming">>, <<"gamedev">>, <<"indiegaming">>>>],
      [value |-> "education",
       keywords |-> <<<<"education">>, <<"learning">>, <<"course">>>>,
       subreddits |-> <<<<"education">>, <<"teachers">>, <<"college">>>>],
      [value |-> "realestate",
       keywords |-> <<<<"real", " ", "estate">>, <<"property">>, <<"investment">>>>,
       subreddits |-> <<<<"realestate">>, <<"realestateinvesting">>, <<"landlord">>>>]>>

\* the niches the visitor picks from, and a value no option has
NicheChoices == {"trading", "saas", "nosuch"}
\* what the visitor types into the keyword and the subreddit field
KeywordTexts == {<<" ", "seo", " ">>}
\* the keyword badges the visitor clicks: the typed keyword and the three
\* keywords of the trading niche, so that the list can be emptied
KeywordBadges == {<<"seo">>, <<"trading">>, <<"stocks">>, <<"investment">>}
SubredditTexts == {<<"ads">>}
\* what the visitor types into 'Maximum Leads to Discover'
MaxLeadsTexts == {<<>>, <<"0">>, <<"-", "5">>, <<"5", "1">>}

\* a lead as the backend sends it; quality_score is in hundredths
ApiLead(id, author, score) ==
    JObj(("id" :> id) @@ ("author" :> author) @@ ("quality_score" :> score))
ApiLeadNoScore(author) == JObj("author" :> author)

\* apiLead.quality_score >= threshold: null counts as 0, undefined as NaN
AtLeast(score, hundredths) ==
    CASE score.t = "num" -> score.v >= hundredths
      [] score.t = "null" -> 0 >= hundredths
      [] OTHER -> FALSE
\* mutant: the B and C thresholds are swapped
QualityGradeSwapped(score) ==
    IF AtLeast(score, 70) THEN "A"
    ELSE IF AtLeast(score, 30) THEN "B"
    ELSE IF AtLeast(score, 50) THEN "C"
    ELSE "D"
\* the qualityGrade expression of transformedLeads
QualityGrade(score) ==
    IF AtLeast(score, 70) THEN "A"
    ELSE IF AtLeast(score, 50) THEN "B"
    ELSE IF AtLeast(score, 30) THEN "C"
    ELSE "D"
\* apiLead.id?.toString() || `discovered-${Date.now()}-${index}`
LeadId(apiLead, now, index) ==
    LET id == Prop(apiLead, "id")
        str == CASE id.t = "num" -> ToString(id.v)
                 [] id.t = "str" -> id.v
                 [] OTHER -> ""
    IN  IF str # "" THEN str
        ELSE "discovered-" \o ToString(now) \o "-" \o ToString(index)
\* one element of transformedLeads; index counts from 0
TransformLead(apiLead, index, now, keywords) ==
    LET score == Prop(apiLead, "quality_score")
        author == Prop(apiLead, "author")
        content == Prop(apiLead, "content")
        title == Prop(apiLead, "title")
    IN  [id |-> LeadId(apiLead, now, index),
         name |-> IF Truthy(author) THEN author.v ELSE "Unknown User",
         email |-> <<>>,
         username |-> IF author.t = "str" THEN <<author.v>> ELSE <<>>,
         source |-> "reddit",
         content |-> IF Truthy(content) THEN content.v
                     ELSE IF Truthy(title) THEN title.v ELSE "",
         intentScore |-> IF Truthy(score) THEN score.v ELSE 0,
         qualityGrade |-> QualityGrade(score),
         status |-> "new",
         interests |-> keywords,
         painPoints |-> <<>>]
\* response.data.map(...)
TransformLeads(api, now, keywords) ==
    [i \in 1..Len(api) |-> TransformLead(api[i], i - 1, now, keywords)]

\* POST /api/leads/discover: an array of leads, bare or wrapped in {data}
Round1 ==
    <<ApiLead(JNum(1), JStr("ann"), JNum(70)),
      ApiLead(JNum(2), JStr("ben"), JNum(69)),
      ApiLeadNoScore(JStr(""))>>
Round2 ==
    <<ApiLead(JNum(1), JStr("ann"), JNum(50)),
      ApiLead(JNum(3), JNull, JNum(49)),
      ApiLead(JNum(0), JStr("cat"), JNum(30))>>
Round3 ==
    <<ApiLead(JUndefined, JStr("dan"), JNum(29)),
      ApiLead(JNull, JStr("eve"), JNull),
      ApiLead(JNum(4), JStr("fay"), JNum(100))>>
DiscoverOutcomes ==
    {JsonResponse(200, JArr(Round1)),
     JsonResponse(200, JObj([data |-> JArr(Round2)])),
     JsonResponse(200, JArr(Round3)),
     JsonResponse(200, JArr(<<>>)),
     JsonResponse(200, JObj([leads |-> JArr(Round1)])),
     JsonResponse(500, WireError("Internal server error")),
     NetworkFailure}
\* DELETE /api/leads/:id
DeleteOutcomes ==
    {JsonResponse(200, JObj([message |-> JStr("deleted")])),
     TextResponse(204),
     JsonResponse(404, WireError("Lead not found")),
     NetworkFailure}
\* the rows whose delete button the visitor uses
DeleteIds == {"1"}

\* toast(...): the toaster keeps the latest MaxToasts notifications
Toast(toasts, msg) ==
    IF Len(toasts) < MaxToasts THEN Append(toasts, msg)
    ELSE Append(Tail(toasts), msg)

WizardShown == location = "/dashboard/leads" /\ modalOpen

\* LeadsPage.handleDiscoverLeads: the 'Discover Leads' button of the page
OpenDiscovery ==
    /\ location = "/dashboard/leads" /\ ~modalOpen
    /\ modalOpen' = TRUE
    /\ UNCHANGED <<wizard, discovers, deletes, lastRound, leadsPage, calls,
                   sessionVars, homeVars, extraVars, serverVars>>

\* handleClose: resetForm(); onClose()
HandleClose ==
    /\ WizardShown
    /\ wizard' = WizardInit
    /\ modalOpen' = FALSE
    /\ UNCHANGED <<discovers, deletes, lastRound, leadsPage, calls,
                   sessionVars, homeVars, extraVars, serverVars>>

\* NICHE_OPTIONS.find(opt => opt.value === niche)
FindNiche(niche) ==
    SelectSeq(NICHE_OPTIONS, LAMBDA opt : opt.value = niche)

\* handleNicheSelect(niche)
HandleNicheSelect(niche) ==
    /\ WizardShown /\ wizard.step = 1
    /\ LET found == FindNiche(niche) IN
       wizard' = IF found # <<>>
                 THEN [wizard EXCEPT !.selectedNiche = niche,
                                     !.keywords = found[1].keywords,
                                     !.subreddits = found[1].subreddits,
                                     !.step = 2]
                 ELSE wizard
    /\ UNCHANGED <<modalOpen, discovers, deletes, lastRound, leadsPage, calls,
                   sessionVars, homeVars, extraVars, serverVars>>

\* the Back button of step 2: setStep(1)
Back ==
    /\ WizardShown /\ wizard.step = 2
    /\ wizard' = [wizard EXCEPT !.step = 1]
    /\ UNCHANGED <<modalOpen, discovers, deletes, lastRound, leadsPage, calls,
                   sessionVars, homeVars, extraVars, serverVars>>

\* onChange of the keyword field
TypeKeyword(text) ==
    /\ WizardShown /\ wizard.step = 2
    /\ wizard' = [wizard EXCEPT !.keywordInput = text]
    /\ UNCHANGED <<modalOpen, discovers, deletes, lastRound, leadsPage, calls,
                   sessionVars, homeVars, extraVars, serverVars>>

\* addKeyword
AddKeyword ==
    /\ WizardShown /\ wizard.step = 2
    /\ LET t == Trim(wizard.keywordInput) IN
       wizard' = IF t # <<>> /\ ~Includes(wizard.keywords, t)
                 THEN [wizard EXCEPT !.keywords = Append(@, t),
                                     !.keywordInput = <<>>]
                 ELSE wizard
    /\ UNCHANGED <<modalOpen, discovers, deletes, lastRound, leadsPage, calls,
                   sessionVars, homeVars, extraVars, serverVars>>

\* removeKeyword(keyword): a click on the keyword's badge
RemoveKeyword(keyword) ==
    /\ WizardShown /\ wizard.step = 2
    /\ Includes(wizard.keywords, keyword)
    /\ wizard' = [wizard EXCEPT
          !.keywords = SelectSeq(@, LAMBDA k : k # keyword)]
    /\ UNCHANGED <<modalOpen, discovers, deletes, lastRound, leadsPage, calls,
                   sessionVars, homeVars, extraVars, serverVars>>

\* onChange of the subreddit field
TypeSubreddit(text) ==
    /\ WizardShown /\ wizard.step = 2
    /\ wizard' = [wizard EXCEPT !.subredditInput = text]
    /\ UNCHANGED <<modalOpen, discovers, deletes, lastRound, leadsPage, calls,
                   sessionVars, homeVars, extraVars, serverVars>>

\* addSubreddit
AddSubreddit ==
    /\ WizardShown /\ wizard.step = 2
    /\ LET t == Trim(wizard.subredditInput) IN
       wizard' = IF t # <<>> /\ ~Includes(wizard.subreddits, t)
                 THEN [wizard EXCEPT !.subreddits = Append(@, t),
                                     !.subredditInput = <<>>]
                 ELSE wizard
    /\ UNCHANGED <<modalOpen, discovers, deletes, lastRound, leadsPage, calls,
                   sessionVars, homeVars, extraVars, serverVars>>

\* removeSubreddit(subreddit): a click on the subreddit's badge
RemoveSubreddit(subreddit) ==
    /\ WizardShown /\ wizard.step = 2
    /\ Includes(wizard.subreddits, subreddit)
    /\ wizard' = [wizard EXCEPT
          !.subreddits = SelectSeq(@, LAMBDA x : x # subreddit)]
    /\ UNCHANGED <<modalOpen, discovers, deletes, lastRound, leadsPage, calls,
                   sessionVars, homeVars, extraVars, serverVars>>

\* parseInt(e.target.value) || 10
MaxLeadsOf(text) ==
    LET n == ParseInt(text) IN IF Truthy(n) THEN n.v ELSE 10

\* onChange of the 'Maximum Leads to Discover' field
TypeMaxLeads(text) ==
    /\ WizardShown /\ wizard.step = 2
    /\ wizard' = [wizard EXCEPT !.maxLeads = MaxLeadsOf(text)]
    /\ UNCHANGED <<modalOpen, discovers, deletes, lastRound, leadsPage, calls,
                   sessionVars, homeVars, extraVars, serverVars>>

\* mutant: the request is sent whatever the keyword list holds
HandleDiscoverLeadsNoGuard ==
    /\ WizardShown /\ wizard.step = 2
    /\ Len(discovers) < MaxDiscovers
    /\ lastRound.n + Len(discovers) < MaxRounds
    /\ wizard' = [wizard EXCEPT !.loading = TRUE, !.step = 3]
    /\ discovers' = Append(discovers,
          [criteria |-> [niche |-> wizard.selectedNiche,
                         keywords |-> wizard.keywords,
                         subreddits |-> wizard.subreddits,
                         maxLeads |-> wizard.maxLeads]])
    /\ UNCHANGED <<modalOpen, deletes, lastRound, leadsPage, calls, sessionVars,
                   homeVars, extraVars, serverVars>>
\* handleDiscoverLeads up to 'await leadsAPI.discoverLeads(criteria)'
HandleDiscoverLeads ==
    /\ WizardShown /\ wizard.step = 2
    /\ IF Len(wizard.keywords) = 0
       THEN /\ leadsPage' = [leadsPage EXCEPT
                  !.toasts = Toast(@, "Please add at least one keyword")]
            /\ UNCHANGED <<wizard, discovers>>
       ELSE /\ Len(discovers) < MaxDiscovers
            /\ lastRound.n + Len(discovers) < MaxRounds
            /\ wizard' = [wizard EXCEPT !.loading = TRUE, !.step = 3]
            /\ discovers' = Append(discovers,
                  [criteria |-> [niche |-> wizard.selectedNiche,
                                 keywords |-> wizard.keywords,
                                 subreddits |-> wizard.subreddits,
                                 maxLeads |-> wizard.maxLeads]])
            /\ UNCHANGED leadsPage
    /\ UNCHANGED <<modalOpen, deletes, lastRound, calls, sessionVars, homeVars, extraVars,
                   serverVars>>

\* a sequence without its i-th element
Without(seq, i) == SubSeq(seq, 1, i - 1) \o SubSeq(seq, i + 1, Len(seq))

\* the i-th discover request settles and handleDiscoverLeads runs to its end;
\* lastRound.n + 1 is Date.now(), which differs from one round to the next
DiscoverSettle(i, o) ==
    /\ i \in 1..Len(discovers)
    /\ LET d == discovers[i]
           res == ApiSettle(o)
           ok == /\ res.state = "resolved" /\ res.value.success
                 /\ Truthy(res.value.data) /\ res.value.data.t = "arr"
           now == lastRound.n + 1
           transformedLeads ==
               TransformLeads(res.value.data.items, now, d.criteria.keywords)
       IN
       /\ wizard' = IF ok
                    THEN [wizard EXCEPT !.discoveredLeads = transformedLeads,
                                        !.step = 4, !.loading = FALSE]
                    ELSE [wizard EXCEPT !.step = 2, !.loading = FALSE]
       /\ leadsPage' = [leadsPage EXCEPT !.toasts =
             IF ok
             THEN Toast(@, "Discovered " \o ToString(Len(transformedLeads))
                              \o " new leads!")
             ELSE Toast(@, "Failed to discover leads")]
       /\ lastRound' = IF ok
                       THEN [n |-> now, api |-> res.value.data.items,
                             leads |-> transformedLeads]
                       ELSE [lastRound EXCEPT !.n = now]
    /\ discovers' = Without(discovers, i)
    /\ UNCHANGED <<modalOpen, deletes, calls, sessionVars, homeVars, extraVars, serverVars>>

\* the 'Discover More' button of step 4: setStep(2)
DiscoverMore ==
    /\ WizardShown /\ wizard.step = 4
    /\ wizard' = [wizard EXCEPT !.step = 2]
    /\ UNCHANGED <<modalOpen, discovers, deletes, lastRound, leadsPage, calls,
                   sessionVars, homeVars, extraVars, serverVars>>

\* mutant: the discovered leads replace the list
HandleLeadsDiscoveredReplace(leads, newLeads) == newLeads
\* LeadsPage.handleLeadsDiscovered: setLeads(prev => [...newLeads, ...prev])
HandleLeadsDiscovered(leads, newLeads) == newLeads \o leads

\* handleFinish: onLeadsDiscovered(discoveredLeads); handleClose()
HandleFinish ==
    /\ WizardShown /\ wizard.step = 4
    /\ leadsPage' = [leadsPage EXCEPT
          !.leads = HandleLeadsDiscovered(@, wizard.discoveredLeads),
          !.toasts = Toast(@, ToString(Len(wizard.discoveredLeads))
                                \o " new leads discovered!")]
    /\ wizard' = WizardInit
    /\ modalOpen' = FALSE
    /\ UNCHANGED <<discovers, deletes, lastRound, calls, sessionVars, homeVars, extraVars,
                   serverVars>>

\* the ids of the rows the leads table shows
LeadIds == {leadsPage.leads[i].id : i \in 1..Len(leadsPage.leads)}

\* handleDeleteLead(leadId) up to 'await leadsAPI.deleteLead(leadId)'
DeleteClick(leadId) ==
    /\ location = "/dashboard/leads" /\ ~modalOpen
    /\ leadId \in LeadIds /\ leadId \notin deletes
    /\ deletes' = deletes \cup {leadId}
    /\ UNCHANGED <<wizard, modalOpen, discovers, lastRound, leadsPage, calls,
                   sessionVars, homeVars, extraVars, serverVars>>

\* that delete request settles and handleDeleteLead runs to its end
DeleteSettle(leadId, o) ==
    /\ leadId \in deletes
    /\ deletes' = deletes \ {leadId}
    /\ LET res == ApiSettle(o) IN
       leadsPage' =
          IF res.state = "rejected"
          THEN [leadsPage EXCEPT !.toasts = Toast(@, "Error deleting lead")]
          ELSE IF res.value.success
          THEN [leadsPage EXCEPT
                  !.leads = SelectSeq(@, LAMBDA lead : lead.id # leadId),
                  !.toasts = Toast(@, "Lead deleted successfully")]
          ELSE [leadsPage EXCEPT !.toasts = Toast(@, "Failed to delete lead")]
    /\ UNCHANGED <<wizard, modalOpen, discovers, lastRound, calls, sessionVars,
                   homeVars, extraVars, serverVars>>

\* the visitor opens the leads page
OpenLeadsPage ==
    /\ location = "/"
    /\ OpenPage("/dashboard/leads", TRUE)

\* the leads page is opened by a visitor who is logged in
InitLeads ==
    /\ InitClient
    /\ authToken = <<"jwt-1">>

\* what the discover route answers while the wizard is edited
WizardOutcomes ==
    {JsonResponse(200, JArr(Round1)),
     JsonResponse(500, WireError("Internal server error")),
     NetworkFailure}

\* one visit of the leads page: the fields of step 2 are edited, no request
NextEdit ==
    \/ OpenLeadsPage
    \/ OpenDiscovery
    \/ HandleClose
    \/ \E niche \in NicheChoices : HandleNicheSelect(niche)
    \/ Back
    \/ \E text \in KeywordTexts : TypeKeyword(text)
    \/ AddKeyword
    \/ \E k \in KeywordBadges : RemoveKeyword(k)
    \/ \E text \in SubredditTexts : TypeSubreddit(text)
    \/ AddSubreddit
    \/ \E x \in SubredditTexts : RemoveSubreddit(x)
    \/ \E text \in MaxLeadsTexts : TypeMaxLeads(text)

SpecEdit == InitLeads /\ [][NextEdit]_vars

\* one visit of the leads page: the wizard and its requests; the visitor
\* picks a niche, removes keywords and edits the maximum
NextWizard ==
    \/ OpenLeadsPage
    \/ OpenDiscovery
    \/ HandleClose
    \/ \E niche \in NicheChoices : HandleNicheSelect(niche)
    \/ Back
    \/ \E k \in KeywordBadges : RemoveKeyword(k)
    \/ \E text \in MaxLeadsTexts : TypeMaxLeads(text)
    \/ HandleDiscoverLeads
    \/ \E i \in 1..MaxDiscovers, o \in WizardOutcomes : DiscoverSettle(i, o)
    \/ DiscoverMore
    \/ HandleFinish

SpecWizard == InitLeads /\ [][NextWizard]_vars

\* one visit of the leads page: the list, the rounds of the wizard, deletes
NextLeads ==
    \/ OpenLeadsPage
    \/ \E o \in LeadsOutcomes : LeadsSettle(o)
    \/ OpenDiscovery
    \/ HandleClose
    \/ \E niche \in NicheChoices : HandleNicheSelect(niche)
    \/ HandleDiscoverLeads
    \/ \E i \in 1..MaxDiscovers, o \in DiscoverOutcomes : DiscoverSettle(i, o)
    \/ DiscoverMore
    \/ HandleFinish
    \/ \E id \in DeleteIds : DeleteClick(id)
    \/ \E id \in DeleteIds, o \in DeleteOutcomes : DeleteSettle(id, o)

SpecLeads == InitLeads /\ [][NextLeads]_vars

\* ------------------------------------------- leads page, search and filters
\* lead.email?.toLowerCase().includes(q): undefined, so falsy, without the field
OptionalIncludes(field, q) ==
    field # <<>> /\ StringIncludes(ToLowerCase(Characters(field[1])), q)

\* mutant: the search text is compared as typed
FilteredLeadsCaseSensitive(leads, f) ==
    SelectSeq(leads, LAMBDA lead :
        LET q == f.searchQuery
            matchesSearch ==
                \/ StringIncludes(ToLowerCase(Characters(lead.name)), q)
                \/ OptionalIncludes(lead.email, q)
                \/ OptionalIncludes(lead.username, q)
                \/ StringIncludes(ToLowerCase(Characters(lead.content)), q)
            matchesStatus == f.statusFilter = "all" \/ lead.status = f.statusFilter
            matchesSource == f.sourceFilter = "all" \/ lead.source = f.sourceFilter
        IN  matchesSearch /\ matchesStatus /\ matchesSource)
\* LeadsPage.filteredLeads
FilteredLeads(leads, f) ==
    SelectSeq(leads, LAMBDA lead :
        LET q == ToLowerCase(f.searchQuery)
            matchesSearch ==
                \/ StringIncludes(ToLowerCase(Characters(lead.name)), q)
                \/ OptionalIncludes(lead.email, q)
                \/ OptionalIncludes(lead.username, q)
                \/ StringIncludes(ToLowerCase(Characters(lead.content)), q)
            matchesStatus == f.statusFilter = "all" \/ lead.status = f.statusFilter
            matchesSource == f.sourceFilter = "all" \/ lead.source = f.sourceFilter
        IN  matchesSearch /\ matchesStatus /\ matchesSource)

\* leads.reduce((sum, lead) => sum + lead.intentScore, 0), in hundredths
RECURSIVE SumIntentScore(_)
SumIntentScore(leads) ==
    IF leads = <<>> THEN 0
    ELSE Head(leads).intentScore + SumIntentScore(Tail(leads))
\* leads.filter(l => l.status === status).length
CountStatus(leads, status) ==
    Len(SelectSeq(leads, LAMBDA l : l.status = status))
\* Math.round(n / d) for n >= 0 and d > 0
RoundedQuotient(n, d) == (2 * n + d) \div (2 * d)
\* LeadsPage.stats; 0 / 0 is NaN and Math.round(NaN) is NaN; conversionRate
\* is in tenths of a percent
Stats(leads) ==
    LET totalLeads == Len(leads)
        converted == CountStatus(leads, "converted")
    IN  [total |-> JNum(totalLeads),
         new |-> JNum(CountStatus(leads, "new")),
         contacted |-> JNum(CountStatus(leads, "contacted")),
         converted |-> JNum(converted),
         avgScore |-> IF totalLeads = 0 THEN NaN
                      ELSE JNum(RoundedQuotient(SumIntentScore(leads), totalLeads)),
         conversionRate |-> IF totalLeads > 0
                            THEN JNum(RoundedQuotient(converted * 1000, totalLeads))
                            ELSE JNum(0)]

\* what the visitor types into the search box
SearchTexts == {<<>>, <<"b", "O">>, <<"S", "e", "o">>, <<"@">>, <<"z">>}
\* the entries of the two filter menus the visitor uses
StatusChoices == {"all", "new", "contacted", "converted"}
SourceChoices == {"all", "reddit", "twitter", "manual"}
\* GET /api/leads while the list is searched
FilterOutcomes ==
    {JsonResponse(200, JObj([leads |-> JArr(
        <<ListedLead("1", "Bob", <<"bob@x.io">>, <<>>, "twitter", "contacted",
                     "need SEO", 40),
          ListedLead("7", "ann", <<>>, <<"Bo">>, "reddit", "new", "", 90),
          ListedLead("9", "cat", <<>>, <<>>, "reddit", "contacted",
                     "ask Bob", 0)>>),
                             total |-> JNum(3)])),
     JsonResponse(500, WireError("Internal server error"))}

\* the search box: onChange={(e) => setSearchQuery(e.target.value)}
TypeSearch(text) ==
    /\ location = "/dashboard/leads" /\ ~modalOpen
    /\ filters' = [filters EXCEPT !.searchQuery = text]
    /\ UNCHANGED <<wizard, modalOpen, discovers, deletes, lastRound, leadsPage,
                   calls, sessionVars, homeVars, debounceVars, sidebar, serverVars>>

\* an entry of the status menu: setStatusFilter(status)
SetStatusFilter(status) ==
    /\ location = "/dashboard/leads" /\ ~modalOpen
    /\ filters' = [filters EXCEPT !.statusFilter = status]
    /\ UNCHANGED <<wizard, modalOpen, discovers, deletes, lastRound, leadsPage,
                   calls, sessionVars, homeVars, debounceVars, sidebar, serverVars>>

\* an entry of the source menu: setSourceFilter(source)
SetSourceFilter(source) ==
    /\ location = "/dashboard/leads" /\ ~modalOpen
    /\ filters' = [filters EXCEPT !.sourceFilter = source]
    /\ UNCHANGED <<wizard, modalOpen, discovers, deletes, lastRound, leadsPage,
                   calls, sessionVars, homeVars, debounceVars, sidebar, serverVars>>

\* the 'Clear Filters' button, rendered while a filter or a search text is set
ClearFilters ==
    /\ location = "/dashboard/leads" /\ ~modalOpen
    /\ \/ filters.searchQuery # <<>>
       \/ filters.statusFilter # "all"
       \/ filters.sourceFilter # "all"
    /\ filters' = [searchQuery |-> <<>>, statusFilter |-> "all",
                   sourceFilter |-> "all"]
    /\ UNCHANGED <<wizard, modalOpen, discovers, deletes, lastRound, leadsPage,
                   calls, sessionVars, homeVars, debounceVars, sidebar, serverVars>>

\* one visit of the leads page: the list is fetched, searched and filtered,
\* and leads are deleted
NextFilter ==
    \/ OpenLeadsPage
    \/ \E o \in FilterOutcomes : LeadsSettle(o)
    \/ \E text \in SearchTexts : TypeSearch(text)
    \/ \E status \in StatusChoices : SetStatusFilter(status)
    \/ \E source \in SourceChoices : SetSourceFilter(source)
    \/ ClearFilters
    \/ \E id \in DeleteIds : DeleteClick(id)
    \/ \E id \in DeleteIds, o \in DeleteOutcomes : DeleteSettle(id, o)

SpecFilter == InitLeads /\ [][NextFilter]_vars

\* ------------------------------------------------------------- debounce
\* the wait the function was debounced with, and the arguments of its calls
Wait == 2
DebounceArgs == {"a", "b"}
\* setTimeout numbers its timers from 1
NextTimerId == Len(SelectSeq(events, LAMBDA e : e.kind = "call")) + 1

\* mutant: the returned function does not clear the pending timer
DebouncedNoClear(args) ==
    /\ NextTimerId <= MaxCalls
    /\ timers' = timers \cup {[id |-> NextTimerId, due |-> time + Wait, args |-> args]}
    /\ timeout' = NextTimerId
    /\ events' = Append(events, [kind |-> "call", at |-> time, args |-> args])
    /\ UNCHANGED <<time, filters, sidebar, serverVars, sessionVars, calls, leadsPage,
                   wizard, modalOpen, discovers, deletes, lastRound, homeVars>>
\* the function debounce returns: clearTimeout(timeout), then
\* timeout = setTimeout(() => func(...args), wait)
Debounced(args) ==
    /\ NextTimerId <= MaxCalls
    /\ timers' = {t \in timers : t.id # timeout}
                    \cup {[id |-> NextTimerId, due |-> time + Wait, args |-> args]}
    /\ timeout' = NextTimerId
    /\ events' = Append(events, [kind |-> "call", at |-> time, args |-> args])
    /\ UNCHANGED <<time, filters, sidebar, serverVars, sessionVars, calls, leadsPage,
                   wizard, modalOpen, discovers, deletes, lastRound, homeVars>>

\* the event loop runs a timer that is due: func(...args)
TimerFires(t) ==
    /\ t \in timers /\ time >= t.due
    /\ timers' = timers \ {t}
    /\ events' = Append(events, [kind |-> "func", at |-> time, args |-> t.args])
    /\ UNCHANGED <<time, timeout, filters, sidebar, serverVars, sessionVars, calls,
                   leadsPage, wizard, modalOpen, discovers, deletes, lastRound,
                   homeVars>>

\* time passes; a due timer is run at most MaxLate late
TimePasses ==
    /\ time < MaxTime
    /\ \A t \in timers : time < t.due + MaxLate
    /\ time' = time + 1
    /\ UNCHANGED <<timeout, timers, events, filters, sidebar, serverVars, sessionVars,
                   calls, leadsPage, wizard, modalOpen, discovers, deletes,
                   lastRound, homeVars>>

NextDebounce ==
    \/ \E args \in DebounceArgs : Debounced(args)
    \/ \E t \in timers : TimerFires(t)
    \/ TimePasses

SpecDebounce == Init /\ [][NextDebounce]_vars

\* ------------------------------------------------------------------ sidebar
\* sidebarItems: id and href of the six entries, in the order of the array
sidebarItems ==
    << [id |-> "dashboard", href |-> <<"/", "dashboard">>],
       [id |-> "leads", href |-> <<"/", "dashboard", "/", "leads">>],
       [id |-> "retention", href |-> <<"/", "dashboard", "/", "retention">>],
       [id |-> "payments", href |-> <<"/", "dashboard", "/", "payments">>],
       [id |-> "analytics", href |-> <<"/", "dashboard", "/", "analytics">>],
       [id |-> "settings", href |-> <<"/", "dashboard", "/", "settings">>] >>
\* String.prototype.startsWith
StartsWith(str, prefix) ==
    /\ Len(prefix) <= Len(str)
    /\ SubSeq(str, 1, Len(prefix)) = prefix
\* Sidebar: isActive of an item for a pathname
IsActive(item, pathname) ==
    \/ pathname = item.href
    \/ StartsWith(pathname, item.href \o <<"/">>)
\* the ids of the items the sidebar draws as active
ActiveItems ==
    {sidebarItems[i].id : i \in {k \in DOMAIN sidebarItems :
                                    IsActive(sidebarItems[k], sidebar.pathname)}}
\* the segments of the paths the browser is sent to
PathSegments ==
    {"dashboard", "leads", "retention", "payments", "analytics", "settings", "42"}
\* the number of segments of a pathname
Segments(pathname) == Len(pathname) \div 2
\* a click on the Link of an item
ClickItem(i) ==
    /\ sidebar' = [sidebar EXCEPT !.pathname = sidebarItems[i].href]
    /\ UNCHANGED <<serverVars, sessionVars, calls, leadsPage, wizard, modalOpen,
                   discovers, deletes, lastRound, homeVars, filters, debounceVars>>
\* the router moves to a top-level path
OpenPath(segment) ==
    /\ sidebar' = [sidebar EXCEPT !.pathname = <<"/", segment>>]
    /\ UNCHANGED <<serverVars, sessionVars, calls, leadsPage, wizard, modalOpen,
                   discovers, deletes, lastRound, homeVars, filters, debounceVars>>
\* the router moves to a path below the current one
OpenSubPath(segment) ==
    /\ Segments(sidebar.pathname) < MaxSegments
    /\ sidebar' = [sidebar EXCEPT !.pathname = @ \o <<"/", segment>>]
    /\ UNCHANGED <<serverVars, sessionVars, calls, leadsPage, wizard, modalOpen,
                   discovers, deletes, lastRound, homeVars, filters, debounceVars>>
\* the collapse button: setIsCollapsed(!isCollapsed)
ToggleCollapsed ==
    /\ sidebar' = [sidebar EXCEPT !.isCollapsed = ~@]
    /\ UNCHANGED <<serverVars, sessionVars, calls, leadsPage, wizard, modalOpen,
                   discovers, deletes, lastRound, homeVars, filters, debounceVars>>

NextSidebar ==
    \/ \E i \in DOMAIN sidebarItems : ClickItem(i)
    \/ \E segment \in PathSegments : OpenPath(segment)
    \/ \E segment \in PathSegments : OpenSubPath(segment)
    \/ ToggleCollapsed

SpecSidebar == Init /\ [][NextSidebar]_vars

\* ------------------------------------------------------- home page, /health
\* app.get('/health'): the body of the response
HealthBody ==
    [status |-> "healthy", database |-> "connected",
     environment |-> "development", timestamp |-> clock, version |-> "1.0.0"]
\* that body as JSON on the wire
WireHealth ==
    JObj([status |-> JStr(HealthBody.status),
          database |-> JStr(HealthBody.database),
          environment |-> JStr(HealthBody.environment),
          timestamp |-> JNum(HealthBody.timestamp),
          version |-> JStr(HealthBody.version)])
\* what fetch(`${API_URL}/health`) may come back with: the server's answer
\* once it listens, else a gateway error page or no connection
HealthOutcomes ==
    (IF serverPc = "listening" THEN {JsonResponse(200, WireHealth)} ELSE {})
    \cup {TextResponse(502), NetworkFailure}

\* time passes on the server
Tick ==
    /\ clock < MaxClock
    /\ clock' = clock + 1
    /\ UNCHANGED <<serverVars, sessionVars, extraVars, calls, leadsPage, wizard, modalOpen,
                   discovers, deletes, lastRound, home, healthFetch>>

\* the Refresh button: fetchHealth up to 'await fetch'
FetchHealth ==
    /\ location = "/" /\ ~home.loading
    /\ home' = [home EXCEPT !.loading = TRUE]
    /\ healthFetch' = "pending"
    /\ UNCHANGED <<serverVars, sessionVars, extraVars, calls, leadsPage, wizard, modalOpen,
                   discovers, deletes, lastRound, clock>>

\* the fetch comes back and fetchHealth runs to its end
HealthSettle(o) ==
    /\ healthFetch = "pending"
    /\ healthFetch' = "none"
    /\ home' =
          IF o.kind = "failure"
          THEN [health |-> JNull, loading |-> FALSE, error |-> JStr("Failed to fetch")]
          ELSE IF ~Ok(o.status)
          THEN [health |-> JNull, loading |-> FALSE,
                error |-> JStr("HTTP " \o ToString(o.status))]
          ELSE IF ~o.json
          THEN [health |-> JNull, loading |-> FALSE,
                error |-> JStr("Unexpected token in JSON")]
          ELSE [health |-> o.value, loading |-> FALSE, error |-> JNull]
    /\ UNCHANGED <<serverVars, sessionVars, extraVars, calls, leadsPage, wizard, modalOpen,
                   discovers, deletes, lastRound, clock>>

\* the server starts while a visitor watches the home page
NextHealth ==
    \/ InitDatabase
    \/ Listen
    \/ Tick
    \/ FetchHealth
    \/ \E o \in HealthOutcomes : HealthSettle(o)

SpecHealth == Init /\ [][NextHealth]_vars

\* ---------------------------------------------------------- server claims
Done == {r \in InFlight : r.pc = "done"}
Signups == {r \in InFlight : r.kind = "signup"}
Logins == {r \in InFlight : r.kind = "login"}
\* the request carries every field its route requires
WellFormed(r) ==
    /\ ~Falsy(r.email) /\ ~Falsy(r.password)
    /\ r.kind = "signup" => ~Falsy(r.full_name)
IsError(resp) == DOMAIN resp.body = {"error"}
IsSuccess(resp) == DOMAIN resp.body = {"access_token", "token_type", "user"}
\* a well-formed signup whose email had a row when the request arrived
DuplicateSignups ==
    {r \in Signups : WellFormed(r) /\ r.rowsAtArrival # {}}

\* C1: a well-formed signup for an email that already has a row is answered
\* 409 'Email already registered' and nothing else (no token); it never gets
\* as far as hashing or inserting, and the rows for that email stay exactly
\* the row that was there when the request arrived.
C1_DuplicateSignupIs409 ==
    \A r \in DuplicateSignups :
        /\ r.pc \in {"select", "done"}
        /\ r.pc = "done" =>
              r.sent = <<Response(409, ErrorBody("Email already registered"))>>
        /\ SelectByEmail(r.email.s) = r.rowsAtArrival
C1_Witness ==
    \E r \in DuplicateSignups : r.pc = "done" /\ r.sent[1].status = 409

\* well-formed signups for email e that all arrived before e had a row
FirstSignups(e) ==
    {r \in Signups : WellFormed(r) /\ r.email.s = e
                     /\ r.rowsAtArrival = {}}
\* C2: when concurrent well-formed signups for one email have all been
\* answered (the table exists), each got 201 or 409 'Email already
\* registered', never 500, at most one of them got 201, and the table holds
\* exactly one row for the email.
C2_ConcurrentSignupNever500 ==
    \A e \in Emails :
        (tableExists /\ FirstSignups(e) # {} /\ FirstSignups(e) \subseteq Done) =>
            /\ \A r \in FirstSignups(e) :
                  \/ r.sent[1].status = 201
                  \/ r.sent = <<Response(409, ErrorBody("Email already registered"))>>
            /\ Cardinality({r \in FirstSignups(e) : r.sent[1].status = 201}) <= 1
            /\ Cardinality(SelectByEmail(e)) = 1

\* logins for an existing user with a password bcrypt.compare rejects
WrongPasswordLogins ==
    {r \in Logins : WellFormed(r) /\ r.rowsAtArrival # {}
        /\ \A u \in r.rowsAtArrival :
              ~BcryptCompare(r.password.s, u.password_hash)}
\* a step taken by a login handler
LoginStep ==
    \E r \in BagToSet(reqs') : r.kind = "login" /\ CopiesIn(r, reqs') > CopiesIn(r, reqs)
\* C3: a login for an existing user with a password that does not match the
\* stored hash is answered 401 'Invalid credentials' and nothing else (no
\* token), and no step of a login handler changes the users table, the id
\* sequence or the table's existence.
C3_WrongPasswordIs401 ==
    /\ [](\A r \in WrongPasswordLogins :
            r.pc = "done" =>
               r.sent = <<Response(401, ErrorBody("Invalid credentials"))>>)
    /\ [][LoginStep => UNCHANGED <<users, serial, tableExists, created>>]_vars
C3_Witness ==
    \E r \in WrongPasswordLogins : r.pc = "done" /\ r.sent[1].status = 401

\* answered logins that arrived after the signup c was answered 201
LoginsAfter(c) ==
    {r \in Logins \cap Done : WellFormed(r) /\ r.email.s = c.email
                              /\ r.rowsAtArrival # {}}
LoginOk(r, c) ==
    /\ Len(r.sent) = 1 /\ r.sent[1].status = 200
    /\ IsSuccess(r.sent[1])
    /\ r.sent[1].body.access_token.sub = ToString(c.id)
\* C4 as stated: after signup (e, p) returned 201, a later login with (e, p)
\* returns 200 with a token whose subject is the new user's id, and a login
\* with (e, p') for any p' different from p returns 401.
C4_Original ==
    \A c \in created : \A r \in LoginsAfter(c) :
        /\ r.password.s = c.password => LoginOk(r, c)
        /\ r.password.s # c.password => r.sent[1].status = 401
\* C4 amended: the login with (e, p') is accepted exactly when the 72-byte
\* bcrypt key of p' equals that of p (so p itself always is), with a token
\* whose subject is the new user's id, and returns 401 otherwise.
C4_SignupThenLogin ==
    \A c \in created : \A r \in LoginsAfter(c) :
        /\ r.password.s = c.password => LoginOk(r, c)
        /\ BcryptKey(r.password.s) = BcryptKey(c.password) => LoginOk(r, c)
        /\ BcryptKey(r.password.s) # BcryptKey(c.password) =>
              r.sent = <<Response(401, ErrorBody("Invalid credentials"))>>
C4_Witness ==
    \E c \in created : \E r, q \in LoginsAfter(c) :
        /\ r.password.s = c.password /\ r.sent[1].status = 200
        /\ q.password.s # c.password /\ q.sent[1].status = 401

Malformed == {r \in InFlight : ~WellFormed(r)}
\* C6: a signup without email, password or full_name, and a login without
\* email or password, is answered 400 with an {error} body by the step that
\* receives it, with no database query issued, and that step leaves the
\* users table as it was.
C6_MissingFieldIs400 ==
    /\ [](\A r \in Malformed :
            /\ r.pc = "done" /\ r.queries = 0
            /\ Len(r.sent) = 1
            /\ r.sent[1].status = 400 /\ IsError(r.sent[1]))
    /\ [][\A r \in BagToSet(reqs') :
            (~WellFormed(r) /\ CopiesIn(r, reqs') > CopiesIn(r, reqs))
               => UNCHANGED <<users, serial, tableExists>>]_vars
C6_Witness ==
    \E r, q \in Malformed :
        /\ r.kind = "signup" /\ Falsy(r.full_name)
        /\ ~Falsy(r.email) /\ ~Falsy(r.password)
        /\ r.sent[1].status = 400
        /\ q.kind = "login" /\ q.sent[1].status = 400

\* ---------------------------------------------------------- client claims
Settled == {c \in Callers : calls[c].state = "settled"}
Issued == {c \in Callers : calls[c].state \in {"pending", "settled"}}
\* the four kinds of outcome of a fetch
Json2xx(o) == o.kind = "response" /\ o.json /\ Ok(o.status)
JsonNon2xx(o) == o.kind = "response" /\ o.json /\ ~Ok(o.status)
NotJson(o) == o.kind = "response" /\ ~o.json
IsFailure(res) ==
    /\ res.state = "resolved" /\ res.value.success = FALSE
    /\ DOMAIN res.value = {"success", "error"} /\ res.value.error # ""
IsData(res) ==
    /\ res.state = "resolved" /\ res.value.success = TRUE
    /\ "data" \in DOMAIN res.value /\ res.value.data.t # "undefined"

\* C7 as stated: whatever fetch comes back with, the promise of apiRequest
\* resolves, to success true with data on a 2xx JSON body and to success
\* false with error in every other case.
C7_Original ==
    \A c \in Settled :
        LET o == calls[c].outcome
            res == calls[c].result IN
        /\ res.state = "resolved"
        /\ res.value.success \in BOOLEAN
        /\ Json2xx(o) => IsData(res)
        /\ ~Json2xx(o) => IsFailure(res)
\* C7 amended: the promise resolves to success true with data on a 2xx
\* response whose body is JSON other than null; it REJECTS with an APIError
\* (the body's error or 'API request failed', and the status) on a non-2xx
\* response whose body is JSON other than null; it resolves to success false
\* with an error message on a network failure, a body that is not JSON and a
\* JSON null body.
C7_ApiRequestOutcomes ==
    \A c \in Settled :
        LET o == calls[c].outcome
            res == calls[c].result IN
        /\ (Json2xx(o) /\ o.value.t # "null") => IsData(res)
        /\ (JsonNon2xx(o) /\ o.value.t # "null") =>
              /\ res.state = "rejected"
              /\ res.error.name = "APIError" /\ res.error.status = o.status
              /\ res.error.message =
                    (IF Truthy(Prop(o.value, "error")) THEN Prop(o.value, "error")
                     ELSE JStr("API request failed"))
        /\ (o.kind = "failure" \/ NotJson(o) \/ o.value.t = "null") => IsFailure(res)
C7_Witness ==
    \E c \in Settled :
        /\ JsonNon2xx(calls[c].outcome) /\ calls[c].outcome.value.t # "null"
        /\ calls[c].result.state = "rejected"

HasAuth(h) == "Authorization" \in DOMAIN h
\* C8: a request issued by apiRequest in the browser carries 'Authorization:
\* Bearer t' exactly when localStorage held a non-empty auth_token t when
\* apiRequest was called and the caller passed no Authorization header; t is
\* the token stored at that moment; a header the caller passes is sent with
\* the caller's value, Content-Type is application/json otherwise.
C8_BearerHeader ==
    \A c \in Issued :
        LET call == calls[c]
            attached == /\ call.storedAtCall # <<>> /\ call.storedAtCall[1] # ""
                        /\ ~HasAuth(call.callerHeaders) IN
        call.inBrowser =>
            /\ attached =>
                  /\ HasAuth(call.headers)
                  /\ call.headers["Authorization"] = "Bearer " \o call.storedAtCall[1]
            /\ ~attached =>
                  (HasAuth(call.headers) =>
                      /\ HasAuth(call.callerHeaders)
                      /\ call.headers["Authorization"] = call.callerHeaders["Authorization"])
            /\ \A h \in DOMAIN call.callerHeaders : call.headers[h] = call.callerHeaders[h]
            /\ DOMAIN call.headers =
                  DOMAIN call.callerHeaders \cup {"Content-Type"}
                     \cup (IF attached THEN {"Authorization"} ELSE {})
            /\ "Content-Type" \notin DOMAIN call.callerHeaders =>
                  call.headers["Content-Type"] = "application/json"
\* a request in flight carries the token of its call while the store has moved on
C8_Witness ==
    /\ calls["api"].state = "pending" /\ calls["api"].inBrowser
    /\ HasAuth(calls["api"].headers) /\ ~HasAuth(calls["api"].callerHeaders)
    /\ authToken # calls["api"].storedAtCall

\* the interface's success body {access_token, token_type, user} with 200
InterfaceSuccess(o) ==
    /\ o.kind = "response" /\ o.json /\ o.status = 200
    /\ o.value.t = "obj"
    /\ DOMAIN o.value.v = {"access_token", "token_type", "user"}
\* C9: when the backend answers a login submitted on the mounted login page
\* with the interface's success body, the page stores the access token
\* under auth_token, navigates to /dashboard and ends with isLoading false
\* and no error message.
C9_LoginStoresToken ==
    [][\A o \in AuthOutcomes :
          (LoginSettle(o) /\ InterfaceSuccess(o) /\ ~calls["login"].orphan) =>
              /\ authToken' = <<o.value.v.access_token.v>>
              /\ pendingNav' = <<Push("/dashboard")>>
              /\ loginPage' = [isLoading |-> FALSE, error |-> ""]]_vars

\* the page renders its content: not a loading placeholder, and not the last
\* frame of a page that a redirect is about to replace
ShowsContent ==
    /\ pendingNav = <<>>
    /\ location = "/dashboard" => ~dashboardPage.loading
\* the page has a data request out
RequestOut == calls["stats"].state = "pending" \/ calls["leads"].state = "pending"
\* C10: a dashboard page shows its content or has a data request out only if
\* localStorage holds an auth_token, and a dashboard page mounted without one
\* is being redirected to /login.
C10_RouteProtection ==
    location \in DashboardPages =>
        /\ (ShowsContent \/ RequestOut) => Truthy(Stored(authToken))
        /\ authToken = <<>> => (pendingNav # <<>> /\ pendingNav[1].path \in {"/login", "/signup"})

\* C11: after a logout (authAPI.logout or the navbar's Log out) localStorage
\* holds no auth_token and every apiRequest issued carries no Authorization
\* header, until a login, signup or demo login stores a new token; the
\* navigation the navbar logout asks for lands on /login and stays there
C11_LogoutClearsToken ==
    /\ [](loggedOut # "no" => authToken = <<>>)
    /\ [](\A c \in Callers :
            (calls[c].state = "pending" /\ calls[c].storedAtCall = <<>>)
               => ~HasAuth(calls[c].headers))
    /\ [](loggedOut = "navbar" /\ pendingNav # <<>>
            => pendingNav = <<Href("/login")>>)
    /\ [][(loggedOut = "navbar" /\ pendingNav # <<>> /\ location' # location)
            => (location' = "/login" /\ pendingNav' = <<>>)]_vars

\* C11 witness: after the navbar logout the visitor is on /login and a login
\* request issued there is in flight
C11_Witness ==
    /\ loggedOut = "navbar"
    /\ location = "/login"
    /\ calls["login"].state = "pending"
    /\ calls["login"].storedAtCall = <<>>

\* a response of the backend with status 400, 401, 409 or 500 and body {error: s}
BackendError(o) ==
    /\ JsonNon2xx(o)
    /\ o.status \in {400, 401, 409, 500}
    /\ Prop(o.value, "error").t = "str"

\* C12: when a backend response with status 400, 401, 409 or 500 and body
\* {error: s} reaches a frontend operation the user is shown an error
\* notification, and for login and signup the message shown is s
C12_ErrorsSurfaced ==
    [][\A o \in AuthOutcomes \cup LeadsOutcomes :
          BackendError(o) =>
             /\ (LoginSettle(o) /\ ~calls["login"].orphan)
                    => loginPage'.error = Prop(o.value, "error").v
             /\ (SignupSettle(o) /\ ~calls["signup"].orphan)
                    => signupPage'.error = Prop(o.value, "error").v
             /\ (LeadsSettle(o) /\ ~calls["leads"].orphan)
                    => Len(leadsPage'.toasts) > Len(leadsPage.toasts)]_vars

\* C13: the leads list of the leads page never holds two entries with the
\* same id, whatever fetch, discovery rounds, 'Add Leads to Dashboard' and
\* deletes have happened
C13_NoDuplicateIds ==
    \A i, j \in 1..Len(leadsPage.leads) :
        i # j => leadsPage.leads[i].id # leadsPage.leads[j].id

\* C14: the body of GET /health that the home page received says database
\* 'connected' exactly when the database is reachable and the users table was
\* initialised
C14_HealthReportsDatabase ==
    home.health.t = "obj" =>
        (Prop(home.health, "database") = JStr("connected")
            <=> (dbUp /\ tableExists))

ListedNiches == {NICHE_OPTIONS[i].value : i \in 1..Len(NICHE_OPTIONS)}
\* the steps of the documented flow and what causes each
DocumentedStep ==
    \/ /\ wizard.step = 1 /\ wizard'.step = 2
       /\ \E niche \in ListedNiches : HandleNicheSelect(niche)
    \/ wizard.step = 2 /\ wizard'.step = 1 /\ Back
    \/ /\ wizard.step = 2 /\ wizard'.step = 3
       /\ Len(wizard.keywords) > 0 /\ HandleDiscoverLeads
    \/ /\ wizard.step = 3 /\ wizard'.step = 4
       /\ \E i \in 1..Len(discovers), o \in DiscoverOutcomes :
             Json2xx(o) /\ DiscoverSettle(i, o)
    \/ /\ wizard.step = 3 /\ wizard'.step = 2
       /\ \E i \in 1..Len(discovers), o \in DiscoverOutcomes : DiscoverSettle(i, o)
    \/ wizard.step = 4 /\ wizard'.step = 2 /\ DiscoverMore
    \/ wizard'.step = 1 /\ (HandleClose \/ HandleFinish)

\* C15: the step of the wizard is always 1, 2, 3 or 4 and changes only as
\* the documented flow says: 1 to 2 by selecting a listed niche, 2 to 1 by
\* Back, 2 to 3 by Discover Leads with a keyword, 3 to 4 when the request
\* succeeded, 3 to 2 when it failed, 4 to 2 by Discover More, any to 1 by close
C15_DocumentedFlow ==
    /\ [](wizard.step \in 1..4)
    /\ [][wizard'.step # wizard.step => DocumentedStep]_vars

\* C16: while the wizard is closed its state is the initial state, also when
\* a discover request that was in flight at the time of closing settles
C16_ClosedWizardIsReset ==
    ~modalOpen => wizard = WizardInit

\* handleDiscoverLeads takes its failure path for this response
DiscoverFails(o) ==
    LET res == ApiSettle(o) IN
    res.state = "rejected" \/ ~res.value.success

DocumentedGrade(score) ==
    IF score.t = "num" /\ score.v >= 70 THEN "A"
    ELSE IF score.t = "num" /\ score.v >= 50 THEN "B"
    ELSE IF score.t = "num" /\ score.v >= 30 THEN "C"
    ELSE "D"
GradeRank(grade) ==
    CASE grade = "A" -> 4 [] grade = "B" -> 3 [] grade = "C" -> 2 [] OTHER -> 1
ScoreOf(apiLead) == Prop(apiLead, "quality_score")

C20_MaxLeadsInBounds ==
    \A i \in 1..Len(discovers) :
        discovers[i].criteria.maxLeads \in 1..50

\* handleDeleteLead takes its success path for this response
DeleteConfirmed(o) ==
    LET res == ApiSettle(o) IN
    res.state = "resolved" /\ res.value.success

\* C21: a confirmed delete removes exactly the one entry with that id, leaving
\* every other entry and the order as they were, whatever happened to the list
\* since the click; a delete that fails leaves the list unchanged
C21_DeleteRemovesOneEntry ==
    [][\A id \in DeleteIds, o \in DeleteOutcomes :
          DeleteSettle(id, o) =>
              IF DeleteConfirmed(o) /\ id \in LeadIds
              THEN \E k \in 1..Len(leadsPage.leads) :
                      /\ leadsPage.leads[k].id = id
                      /\ leadsPage'.leads = Without(leadsPage.leads, k)
              ELSE leadsPage'.leads = leadsPage.leads]_vars

\* a is b with some elements left out
RECURSIVE IsSubsequence(_, _)
IsSubsequence(a, b) ==
    IF a = <<>> THEN TRUE
    ELSE IF b = <<>> THEN FALSE
    ELSE IF Head(a) = Head(b) THEN IsSubsequence(Tail(a), Tail(b))
    ELSE IsSubsequence(a, Tail(b))
\* two characters that differ at most in case
SameLetter(a, b) ==
    \/ a = b
    \/ a \in DOMAIN LowerCaseOf /\ LowerCaseOf[a] = b
    \/ b \in DOMAIN LowerCaseOf /\ LowerCaseOf[b] = a
\* the text holds the search text somewhere, case ignored
HoldsIgnoringCase(str, q) ==
    LET t == Characters(str) IN
    \E i \in 0..(Len(t) - Len(q)) : \A j \in 1..Len(q) : SameLetter(t[i + j], q[j])
\* the lead matches the search text and both filters, as documented
DocumentedMatch(lead) ==
    /\ \/ HoldsIgnoringCase(lead.name, filters.searchQuery)
       \/ \E e \in {lead.email[i] : i \in 1..Len(lead.email)} :
             HoldsIgnoringCase(e, filters.searchQuery)
       \/ \E u \in {lead.username[i] : i \in 1..Len(lead.username)} :
             HoldsIgnoringCase(u, filters.searchQuery)
       \/ HoldsIgnoringCase(lead.content, filters.searchQuery)
    /\ filters.statusFilter \in {"all", lead.status}
    /\ filters.sourceFilter \in {"all", lead.source}
\* the rows the leads table is given
Displayed == FilteredLeads(leadsPage.leads, filters)

C23_StatsWellDefined ==
    LET leads == leadsPage.leads
        st == Stats(leads)
    IN
    /\ \A f \in DOMAIN st : st[f].t = "num"
    /\ st.total.v = Len(leads)
    /\ \A f \in {"new", "contacted", "converted"} :
          st[f].v = Cardinality({i \in 1..Len(leads) : leads[i].status = f})
    /\ st.avgScore.v \in 0..100
    /\ st.conversionRate.v \in 0..1000
    /\ leads = <<>> => \A f \in DOMAIN st : st[f].v = 0

\* fetchDashboardData's request of the mounted dashboard is out
StatsPending == calls["stats"].state = "pending"
\* every entry of the stats is 0 with trend 'neutral'
AllZero(stats) ==
    /\ stats.t = "obj"
    /\ DOMAIN stats.v = {"leadsGenerated", "conversions", "revenue", "retention"}
    /\ \A e \in DOMAIN stats.v :
          /\ Prop(stats.v[e], "change") = JNum(0)
          /\ Prop(stats.v[e], "trend") = JStr("neutral")
          /\ Prop(stats.v[e], IF e = "retention" THEN "rate" ELSE "total") = JNum(0)
\* the backend answered the stats request with 2xx and stats, bare or in {data}
StatsDelivered(o) ==
    /\ o.kind = "response" /\ o.json /\ Ok(o.status) /\ o.value.t = "obj"
\* the stats that response carries
StatsOf(o) == IF Truthy(Prop(o.value, "data")) THEN Prop(o.value, "data") ELSE o.value

\* C24: on the mounted dashboard loading is true exactly while the stats
\* request is out, so it is false once the request settled or a redirect was
\* chosen and stays false until the page is mounted again; the stats are the
\* backend's after a response that delivered them and all zero with trend
\* 'neutral' otherwise; the user is marked authenticated only when a token
\* was stored at the request and the request did not throw
C24_DashboardLoadFinishes ==
    /\ [](location = "/dashboard" => (dashboardPage.loading <=> StatsPending))
    /\ [][(location = "/dashboard" /\ ~dashboardPage.loading
             /\ location' = "/dashboard" /\ dashboardPage'.loading)
            => (calls'["stats"].state = "pending" /\ ~StatsPending)]_vars
    /\ [][\A o \in StatsOutcomes : StatsSettle(o) =>
            /\ ~dashboardPage'.loading
            /\ dashboardPage'.dashboardStats =
                  IF StatsDelivered(o) THEN StatsOf(o) ELSE ZeroStats
            /\ dashboardPage'.user = "authenticated" =>
                  /\ Truthy(Stored(calls["stats"].storedAtCall))
                  /\ ApiSettle(o).state = "resolved"]_vars
    /\ [](~AllZero(dashboardPage.dashboardStats)
             => dashboardPage.user = "authenticated")
    /\ [](dashboardPage.user = "authenticated" => Truthy(Stored(authToken))
             \/ loggedOut # "no")

\* C24 witness: the stats request was answered 401; the dashboard shows
\* zeros, is not loading and the user is not marked authenticated
C24_Witness ==
    /\ location = "/dashboard" /\ ~dashboardPage.loading /\ pendingNav = <<>>
    /\ ~StatsPending /\ Truthy(Stored(authToken))
    /\ dashboardPage.user = "null"
    /\ AllZero(dashboardPage.dashboardStats)

\* localStorage holds a token that 'Continue as Demo User' generated
IsDemo(storage) == storage # <<>> /\ storage[1] \in DemoTokens

\* C25: a session started with 'Continue as Demo User' loses its auth_token
\* and is redirected to /signup when the dashboard loads: the mounted
\* dashboard never holds a demo token, and no request is sent with one
C25_DemoRedirected ==
    /\ location = "/dashboard" => ~IsDemo(authToken)
    /\ \A c \in Callers :
          calls[c].state = "pending" => ~IsDemo(calls[c].storedAtCall)

\* the error strings the two routes send
ErrorStrings ==
    {"Email, password, and full name are required", "Email already registered",
     "Email and password are required", "Invalid credentials",
     "Internal server error"}
\* the body names neither the password nor its hash, at the top or in the user
NoSecret(body, password) ==
    /\ DOMAIN body \cap {"password", "password_hash"} = {}
    /\ "user" \in DOMAIN body =>
          /\ DOMAIN body.user \cap {"password", "password_hash"} = {}
          /\ \A f \in {"email", "full_name"} : body.user[f] # password
    /\ "error" \in DOMAIN body =>
          /\ DOMAIN body = {"error"}
          /\ body.error \in ErrorStrings

\* C26: no response of the auth server holds a password_hash field or the
\* submitted password: the user of every signup and login success response
\* comes without password_hash, and an error response is the error string
\* and nothing else
C26_NoSecretInResponses ==
    \A r \in InFlight : \A i \in 1..Len(r.sent) :
        NoSecret(r.sent[i].body, r.password.s)

\* C26 witness: a signup was answered 201 and a login 200, each with the user
C26_Witness ==
    \E r, q \in InFlight :
        /\ r.kind = "signup" /\ r.pc = "done" /\ r.sent[1].status = 201
        /\ q.kind = "login" /\ q.pc = "done" /\ q.sent[1].status = 200
        /\ "email" \in DOMAIN r.sent[1].body.user
        /\ "email" \in DOMAIN q.sent[1].body.user

\* answered logins that reached the comparison or found no row, in pairs for
\* the same email and password: r found a row and was refused, q found none
RefusedPairs ==
    {<<r, q>> \in (Logins \cap Done) \X (Logins \cap Done) :
        /\ WellFormed(r) /\ WellFormed(q)
        /\ r.email = q.email /\ r.password = q.password
        /\ ~r.threw /\ ~q.threw
        /\ r.rows # {} /\ q.rows = {}
        /\ r.sent[1].status # 200}

C28_ListensAfterInitDatabase ==
    /\ [][serverPc' # serverPc =>
            \/ serverPc = "initDatabase" /\ serverPc' = "initialized"
            \/ serverPc = "initialized" /\ serverPc' = "listening"]_vars
    /\ [][reqs' # reqs => (serverPc = "listening" /\ serverPc' = "listening")]_vars
    /\ [](serverPc = "initDatabase" =>
            (~tableExists /\ reqs = EmptyBag /\ users = {}))

\* C28 witness: table creation failed, the server listens all the same and
\* has answered a signup with 500
C28_Witness ==
    /\ serverPc = "listening" /\ ~tableExists
    /\ \E r \in Signups \cap Done : r.threw /\ r.sent[1].status = 500

\* the positions in the history where func was invoked, and where the
\* returned function was called
FuncAt == {k \in 1..Len(events) : events[k].kind = "func"}
CallAt == {k \in 1..Len(events) : events[k].kind = "call"}
\* the returned function runs without invoking func
NeverSynchronous ==
    [][(\E args \in DebounceArgs : Debounced(args)) =>
          (Len(events') = Len(events) + 1 /\ events'[Len(events')].kind = "call")]_vars

\* C29 as stated: each sequence of calls less than wait apart is followed by
\* exactly one invocation of func, wait after its last call and with that
\* call's arguments; func is never invoked synchronously nor more often than
\* the returned function was called
C29_Original ==
    /\ [](\A k \in FuncAt :
            /\ k - 1 \in CallAt
            /\ events[k].args = events[k - 1].args
            /\ events[k].at = events[k - 1].at + Wait)
    /\ [](\A k \in CallAt :
            k - 1 \in CallAt => events[k].at - events[k - 1].at < Wait)
    /\ [](Len(events) \in CallAt => time <= events[Len(events)].at + Wait)
    /\ NeverSynchronous

\* C29 amended: func is invoked only by the timer of the latest call, never
\* synchronously: each invocation directly follows the call whose arguments
\* it carries and comes wait or more after it; one timer is pending exactly
\* after a call that has had no invocation yet, so a sequence of calls gets
\* one invocation unless a further call is made before its timer has run,
\* which a late timer allows also wait or more after the last call
C29_DebounceInvokesLastCall ==
    /\ [](\A k \in FuncAt :
            /\ k - 1 \in CallAt
            /\ events[k].args = events[k - 1].args
            /\ events[k].at >= events[k - 1].at + Wait)
    /\ [](timers = IF Len(events) \in CallAt
                   THEN {[id |-> timeout, due |-> events[Len(events)].at + Wait,
                          args |-> events[Len(events)].args]}
                   ELSE {})
    /\ NeverSynchronous

\* C29 witness: two calls less than wait apart with different arguments, then
\* one invocation with the arguments of the second, wait after it
C29_Witness ==
    /\ Len(events) >= 3
    /\ events[1].kind = "call" /\ events[2].kind = "call"
    /\ events[2].at - events[1].at < Wait
    /\ events[1].args # events[2].args
    /\ events[3] = [kind |-> "func", at |-> events[2].at + Wait,
                    args |-> events[2].args]

\* the items whose route the pathname is, or lies below
RoutesOf(pathname) ==
    {i \in DOMAIN sidebarItems :
        LET href == sidebarItems[i].href
        IN  /\ Len(href) <= Len(pathname)
            /\ SubSeq(pathname, 1, Len(href)) = href
            /\ Len(pathname) > Len(href) => pathname[Len(href) + 1] = "/"}
\* of those, the item of the route itself: the one with the longest href
RouteOf(pathname) ==
    {i \in RoutesOf(pathname) :
        \A j \in RoutesOf(pathname) :
            Len(sidebarItems[j].href) <= Len(sidebarItems[i].href)}
\* C30: for every pathname at most one sidebar item is marked active, and on
\* each of the six dashboard routes and on the paths below it exactly the item
\* of that route is active.
C30_OneActiveItem ==
    /\ Cardinality(ActiveItems) <= 1
    /\ \A i \in RouteOf(sidebar.pathname) : ActiveItems = {sidebarItems[i].id}

====
